---- MODULE Spec2Model ----
(***************************************************************************)
(* FindEverything: the concurrent scan-match-aggregate pipeline of         *)
(* src/src/main.rs, with the walker of src/src/domain/file_walker.rs, the  *)
(* search engine of src/src/domain/search.rs, the CPU monitor of           *)
(* src/src/infrastructure/monitoring.rs and the two loggers.               *)
(***************************************************************************)
EXTENDS Integers, Sequences, FiniteSets, TLC

(* ---------------------------------------------------------------------- *)
(* Bounds of the model                                                     *)
(* ---------------------------------------------------------------------- *)

\* walker worker threads (walker.threads(n), file_walker.rs:140-144)
NumWorkers == 2

\* capacity of the bounded result channel; main.rs:154 uses 100, the model
\* a small capacity that the trees below overflow
ChanCap == 2

(* ---------------------------------------------------------------------- *)
(* Values                                                                  *)
(* ---------------------------------------------------------------------- *)

\* Option<u64>
None == [some |-> FALSE, val |-> 0]
Some(v) == [some |-> TRUE, val |-> v]

Workers == 1..NumWorkers

Min(a, b) == IF a <= b THEN a ELSE b

(* ---------------------------------------------------------------------- *)
(* Strings are sequences of one-character strings.  Byte gives the byte    *)
(* value of the ASCII characters the model uses; the bytes of non-ASCII    *)
(* text are written one element per byte, named in hex ("C3", "A9": the    *)
(* UTF-8 encoding of U+00E9).                                              *)
(* ---------------------------------------------------------------------- *)

Byte(c) ==
    CASE c = "a" -> 97
      [] c = "b" -> 98
      [] c = "x" -> 120
      [] c = "." -> 46
      [] c = "(" -> 40
      [] c = "/" -> 47
      [] c = "\\" -> 92
      [] c = " " -> 32
      [] c = "6" -> 54
      [] c = "1" -> 49
      [] c = "2" -> 50
      [] c = "g" -> 103
      [] c = "C3" -> 195
      [] c = "A9" -> 169
      [] c = "C2" -> 194
      [] c = "83" -> 131
      [] OTHER -> 63

\* s.replace(from, to) for one-character from/to
Replace(s, from, to) == [i \in 1..Len(s) |-> IF s[i] = from THEN to ELSE s[i]]

\* s.replace(' ', "")
RECURSIVE StripSpaces(_)
StripSpaces(s) ==
    IF s = <<>> THEN <<>>
    ELSE IF Head(s) = " " THEN StripSpaces(Tail(s))
         ELSE <<Head(s)>> \o StripSpaces(Tail(s))

EndsWith(s, t) ==
    /\ Len(t) <= Len(s)
    /\ SubSeq(s, Len(s) - Len(t) + 1, Len(s)) = t

(* ---------------------------------------------------------------------- *)
(* SearchPattern (search.rs:9-59)                                          *)
(* ---------------------------------------------------------------------- *)

HexDigit(c) ==
    CASE c = "0" -> 0 [] c = "1" -> 1 [] c = "2" -> 2 [] c = "3" -> 3
      [] c = "4" -> 4 [] c = "5" -> 5 [] c = "6" -> 6 [] c = "7" -> 7
      [] c = "8" -> 8 [] c = "9" -> 9 [] c = "a" -> 10 [] c = "b" -> 11
      [] c = "c" -> 12 [] c = "d" -> 13 [] c = "e" -> 14 [] c = "f" -> 15
      [] OTHER -> -1

\* hex::decode: Err on odd length or a non-hex character
HexDecode(s) ==
    IF Len(s) % 2 # 0 \/ \E i \in 1..Len(s) : HexDigit(s[i]) < 0
    THEN [ok |-> FALSE, bytes |-> <<>>]
    ELSE [ok |-> TRUE,
          bytes |-> [i \in 1..(Len(s) \div 2) |->
                        16 * HexDigit(s[2*i - 1]) + HexDigit(s[2*i])]]

\* regex::Regex::new on the fragment the model uses: every character is a
\* literal, "." matches any character, "(" opens a group that is never closed
RegexCompiles(s) == \A i \in 1..Len(s) : s[i] # "("

\* regex syntax -> matcher elements
RegexElems(s) ==
    [i \in 1..Len(s) |-> IF s[i] = "." THEN [any |-> TRUE, byte |-> 0]
                                        ELSE [any |-> FALSE, byte |-> Byte(s[i])]]

\* from_input without the validation of lines 23-24
from_input_Unvalidated(input, is_regex, is_hex) ==
    IF is_regex
    THEN [tag |-> "Regex", val |-> input]
    ELSE IF is_hex
         THEN IF ~HexDecode(StripSpaces(input)).ok
              THEN [tag |-> "Err", val |-> "InvalidHex"]
              ELSE [tag |-> "Hex", val |-> HexDecode(StripSpaces(input)).bytes]
         ELSE [tag |-> "Text", val |-> input]

\* from_input testing the hex flag before the regex flag
from_input_HexFirst(input, is_regex, is_hex) ==
    IF is_hex
    THEN IF ~HexDecode(StripSpaces(input)).ok
         THEN [tag |-> "Err", val |-> "InvalidHex"]
         ELSE [tag |-> "Hex", val |-> HexDecode(StripSpaces(input)).bytes]
    ELSE IF is_regex
         THEN IF RegexCompiles(input) THEN [tag |-> "Regex", val |-> input]
                                      ELSE [tag |-> "Err", val |-> "InvalidRegex"]
         ELSE [tag |-> "Text", val |-> input]

\* SearchPattern::from_input
from_input(input, is_regex, is_hex) ==
    IF is_regex
    THEN IF RegexCompiles(input) THEN [tag |-> "Regex", val |-> input]
                                 ELSE [tag |-> "Err", val |-> "InvalidRegex"]
    ELSE IF is_hex
         THEN IF ~HexDecode(StripSpaces(input)).ok
              THEN [tag |-> "Err", val |-> "InvalidHex"]
              ELSE [tag |-> "Hex", val |-> HexDecode(StripSpaces(input)).bytes]
         ELSE [tag |-> "Text", val |-> input]

\* the regex \xNN for each byte of a Hex pattern (search.rs:47-50): \xNN
\* denotes the character U+00NN, which for NN below 0x80 is the byte NN and
\* from 0x80 on is matched by the two bytes of its UTF-8 encoding
RECURSIVE HexElems(_)
HexElems(bytes) ==
    IF bytes = <<>> THEN <<>>
    ELSE LET b == Head(bytes)
         IN  (IF b < 128
              THEN << [any |-> FALSE, byte |-> b] >>
              ELSE << [any |-> FALSE, byte |-> 192 + (b \div 64)],
                      [any |-> FALSE, byte |-> 128 + (b % 64)] >>)
             \o HexElems(Tail(bytes))

\* get_matcher handing a Text pattern to the regex compiler unescaped
get_matcher_Unescaped(pattern) ==
    CASE pattern.tag = "Text" -> RegexElems(pattern.val)
      [] pattern.tag = "Hex" -> HexElems(pattern.val)
      [] pattern.tag = "Regex" -> RegexElems(pattern.val)

\* SearchPattern::get_matcher: the compiled matcher is a sequence of elements,
\* each a literal byte or "any character"
get_matcher(pattern) ==
    CASE pattern.tag = "Text" ->
            \* regex::escape: every character taken literally
            [i \in 1..Len(pattern.val) |-> [any |-> FALSE, byte |-> Byte(pattern.val[i])]]
      [] pattern.tag = "Hex" -> HexElems(pattern.val)
      [] pattern.tag = "Regex" -> RegexElems(pattern.val)

\* the matcher matches line at offset k (1-based)
MatchesAt(m, line, k) ==
    /\ k + Len(m) - 1 <= Len(line)
    /\ \A j \in 1..Len(m) : m[j].any \/ m[j].byte = Byte(line[k + j - 1])

\* find returning the rightmost match
Find_Rightmost(m, line) ==
    IF \E k \in 1..(Len(line) + 1) : MatchesAt(m, line, k)
    THEN CHOOSE k \in 1..(Len(line) + 1) :
            /\ MatchesAt(m, line, k)
            /\ \A k2 \in (k + 1)..(Len(line) + 1) : ~MatchesAt(m, line, k2)
    ELSE 0

\* matcher.find(line): offset of the leftmost match, 0 when there is none
Find(m, line) ==
    IF \E k \in 1..(Len(line) + 1) : MatchesAt(m, line, k)
    THEN CHOOSE k \in 1..(Len(line) + 1) :
            /\ MatchesAt(m, line, k)
            /\ \A k2 \in 1..(k - 1) : ~MatchesAt(m, line, k2)
    ELSE 0

(* ---------------------------------------------------------------------- *)
(* search_in_file (search.rs:73-117)                                       *)
(* ---------------------------------------------------------------------- *)

\* the slice taken after the match beginning at the matched line itself
get_context_range_FromMatch(lines, line_idx, context_lines, before) ==
    IF before
    THEN [start |-> IF line_idx >= context_lines THEN line_idx - context_lines ELSE 0,
          end |-> line_idx]
    ELSE [start |-> line_idx,
          end |-> Min(line_idx + 1 + context_lines, Len(lines))]

\* get_context_lines: the slice lines[start..end] it takes (0-based, end
\* excluded), lines 106-116
get_context_range(lines, line_idx, context_lines, before) ==
    IF before
    THEN [start |-> IF line_idx >= context_lines THEN line_idx - context_lines ELSE 0,
          end |-> line_idx]
    ELSE [start |-> line_idx + 1,
          end |-> Min(line_idx + 1 + context_lines, Len(lines))]

\* get_context_lines
get_context_lines(lines, line_idx, context_lines, before) ==
    LET range == get_context_range(lines, line_idx, context_lines, before)
    IN  SubSeq(lines, range.start + 1, range.end)

\* the for loop of search_in_file over lines[from..], line_idx 0-based
RECURSIVE SearchFrom(_, _, _, _, _)
SearchFrom(path, lines, matcher, context_lines, line_idx) ==
    IF line_idx >= Len(lines) THEN <<>>
    ELSE LET line == lines[line_idx + 1]
             k == Find(matcher, line)
             rest == SearchFrom(path, lines, matcher, context_lines, line_idx + 1)
         IN IF k > 0
            THEN << [path |-> path,
                     line_number |-> line_idx + 1,
                     line |-> line,
                     matched_text |-> SubSeq(line, k, k + Len(matcher) - 1),
                     context_before |-> get_context_lines(lines, line_idx, context_lines, TRUE),
                     context_after |-> get_context_lines(lines, line_idx, context_lines, FALSE)] >>
                 \o rest
            ELSE rest

RECURSIVE Reverse(_)
Reverse(q) == IF q = <<>> THEN <<>> ELSE Append(Reverse(Tail(q)), Head(q))

\* search_in_file collecting its results last line first
search_in_file_Reversed(path, lines, matcher, context_lines) ==
    Reverse(SearchFrom(path, lines, matcher, context_lines, 0))

\* Ok(results) of search_in_file for a file that read_to_string could read
search_in_file(path, lines, matcher, context_lines) ==
    SearchFrom(path, lines, matcher, context_lines, 0)

(* ---------------------------------------------------------------------- *)
(* FileFilter (file_walker.rs:15-100)                                      *)
(* ---------------------------------------------------------------------- *)

\* Path::components: the pieces between '/' separators, empty pieces dropped
RECURSIVE SplitPath(_, _)
SplitPath(s, cur) ==
    IF s = <<>> THEN (IF cur = <<>> THEN <<>> ELSE <<cur>>)
    ELSE IF Head(s) = "/"
         THEN (IF cur = <<>> THEN <<>> ELSE <<cur>>) \o SplitPath(Tail(s), <<>>)
         ELSE SplitPath(Tail(s), Append(cur, Head(s)))

Components(path) == SplitPath(path, <<>>)

\* Path::file_name: the final component; a path without one has none
HasFileName(path) == Components(path) # <<>>
FileName(path) == Components(path)[Len(Components(path))]

\* FileFilter::new
NewFileFilter(min_size, max_size, excluded_dirs, excluded_paths) ==
    [min_size |-> min_size, max_size |-> max_size,
     excluded_dirs |-> excluded_dirs, excluded_paths |-> excluded_paths]

\* matches_size with the comparison of the lower bound turned round
matches_size_MinReversed(filter, size) ==
    LET min_ok == IF filter.min_size.some THEN size <= filter.min_size.val ELSE TRUE
        max_ok == IF filter.max_size.some THEN size <= filter.max_size.val ELSE TRUE
    IN  min_ok /\ max_ok

\* matches_size with strict comparisons
matches_size_Exclusive(filter, size) ==
    LET min_ok == IF filter.min_size.some THEN size > filter.min_size.val ELSE TRUE
        max_ok == IF filter.max_size.some THEN size < filter.max_size.val ELSE TRUE
    IN  min_ok /\ max_ok

\* FileFilter::matches_size
matches_size(filter, size) ==
    LET min_ok == IF filter.min_size.some THEN size >= filter.min_size.val ELSE TRUE
        max_ok == IF filter.max_size.some THEN size <= filter.max_size.val ELSE TRUE
    IN  min_ok /\ max_ok

\* is_path_excluded comparing with the excluded path as configured, its
\* separators not normalized
is_path_excluded_RawExcluded(filter, path) ==
    LET normalized_path == Replace(path, "\\", "/")
    IN  \/ \E excluded_path \in filter.excluded_paths :
              \/ normalized_path = excluded_path
              \/ (HasFileName(path) /\ FileName(path) = excluded_path)
              \/ EndsWith(normalized_path, excluded_path)
        \/ \E i \in 1..Len(Components(path)) :
              Components(path)[i] \in filter.excluded_dirs

\* is_path_excluded without the ends_with test of line 66
is_path_excluded_NoSuffix(filter, path) ==
    LET normalized_path == Replace(path, "\\", "/")
    IN  \/ \E excluded_path \in filter.excluded_paths :
              LET normalized_excluded == Replace(excluded_path, "\\", "/")
              IN  \/ normalized_path = normalized_excluded
                  \/ (HasFileName(path) /\ FileName(path) = excluded_path)
        \/ \E i \in 1..Len(Components(path)) :
              Components(path)[i] \in filter.excluded_dirs

\* FileFilter::is_path_excluded
is_path_excluded(filter, path) ==
    LET normalized_path == Replace(path, "\\", "/")
    IN  \/ \E excluded_path \in filter.excluded_paths :
              LET normalized_excluded == Replace(excluded_path, "\\", "/")
              IN  \/ normalized_path = normalized_excluded
                  \/ (HasFileName(path) /\ FileName(path) = excluded_path)
                  \/ EndsWith(normalized_path, normalized_excluded)
        \/ \E i \in 1..Len(Components(path)) :
              Components(path)[i] \in filter.excluded_dirs

\* should_process rejecting an entry whose metadata() fails
should_process_NeedsMetadata(filter, entry) ==
    IF is_path_excluded(filter, entry.path) THEN FALSE
    ELSE IF ~entry.meta_ok \/ ~matches_size(filter, entry.size) THEN FALSE
    ELSE TRUE

\* FileFilter::should_process: Ok(bool), never Err
should_process(filter, entry) ==
    IF is_path_excluded(filter, entry.path) THEN FALSE
    ELSE IF entry.meta_ok /\ ~matches_size(filter, entry.size) THEN FALSE
    ELSE TRUE

(* ---------------------------------------------------------------------- *)
(* The environment: directory trees, command lines, configuration          *)
(* ---------------------------------------------------------------------- *)

Dir(path, children) ==
    [kind |-> "dir", path |-> path, children |-> children,
     size |-> 0, meta_ok |-> TRUE, readable |-> FALSE, lines |-> <<>>]

\* a walk error (permission denied, missing root): Err(err) in the visitor
WalkErr(path) ==
    [kind |-> "err", path |-> path, children |-> {},
     size |-> 0, meta_ok |-> FALSE, readable |-> FALSE, lines |-> <<>>]

File(path, size, readable, lines) ==
    [kind |-> "file", path |-> path, children |-> {},
     size |-> size, meta_ok |-> TRUE, readable |-> readable, lines |-> lines]

\* every file accepted and readable; more matching lines than ChanCap
TreeA ==
    <<  Dir(<<"r">>, {2, 3}),
        File(<<"r", "/", "a">>, 3,
             TRUE, << <<"a", "b">>, <<"x">>, <<"x", "a", "b">>, <<"a", "b", "a", "b">> >>),
        File(<<"r", "/", "c">>, 2, TRUE, << <<"a", "x", "b">>, <<"a", "b">> >>) >>

\* a readable file, an unreadable file, a walk error, a file in an excluded
\* directory, a file over the size bound
TreeB ==
    <<  Dir(<<"r">>, {2, 3, 4, 5, 7}),
        File(<<"r", "/", "b">>, 1, TRUE, << <<"x", "b">>, <<"a", "b">> >>),
        File(<<"r", "/", "u">>, 2, FALSE, <<>>),
        WalkErr(<<"r", "/", "p">>),
        Dir(<<"r", "/", "t">>, {6}),
        File(<<"r", "/", "t", "/", "b">>, 1, TRUE, << <<"a", "b">> >>),
        File(<<"r", "/", "g">>, 9, TRUE, << <<"a", "b">> >>) >>

\* the root path does not exist
TreeC == << WalkErr(<<"r">>) >>

\* a file without a match beside a file with one
TreeD ==
    <<  Dir(<<"r">>, {2, 3}),
        File(<<"r", "/", "n">>, 1, TRUE, << <<"b", "a">> >>),
        File(<<"r", "/", "m">>, 1, TRUE, << <<"a", "b">> >>) >>

Trees == {TreeA, TreeB, TreeC, TreeD}

\* command lines: pattern, --regex, --hex, --log
Arg(pattern, regex, hex) == [pattern |-> pattern, regex |-> regex, hex |-> hex]

ArgsSet ==
    { Arg(<<"a", "b">>, FALSE, FALSE),
      Arg(<<"(">>, TRUE, FALSE),
      Arg(<<"6", "1", " ", "6">>, FALSE, TRUE) }

\* the filter main builds (main.rs:140-145)
TheFilter == NewFileFilter(None, Some(5), {<<"t">>}, {<<"s", "k">>})

\* config.search.context_lines
ContextLines == 1

\* config.performance.cpu_threshold (percent)
cpu_threshold == 80

\* the cpu_usage local of the sampling loop is an f32 percentage; the model
\* writes it in thousandths of a percent
SampleUnit == 1000

\* the samples the model draws: 10.000 % and 80.005 %
CpuSamples == {10000, 80005}

\* cpu_usage > cpu_threshold (monitoring.rs:76)
AboveThreshold(cpu_usage) == cpu_usage > cpu_threshold * SampleUnit

\* (cpu_usage * 100.0) as u64 (monitoring.rs:73): hundredths of a percent,
\* the rest cut off
to_stored(cpu_usage) == (cpu_usage * 100) \div SampleUnit

\* stored as f32 / 100.0 (monitoring.rs:112), in thousandths of a percent
from_stored(stored) == (stored * SampleUnit) \div 100

\* sampling loops one monitor can have spawned
MaxLoops == 2
Loops == 1..MaxLoops

\* threads that share one CpuMonitor (MonitoringTrait: Send + Sync)
NumCallers == 2
Callers == 1..NumCallers

(* ---------------------------------------------------------------------- *)
(* State                                                                   *)
(* ---------------------------------------------------------------------- *)

VARIABLES
    fs,               \* the directory tree under the search path
    args,             \* the command line
    log_enabled,      \* Logger.enabled (args.log)
    main_pc,          \* position of main
    main_result,      \* "running", "Ok" or the error main returned
    matcher,          \* the compiled matcher, empty before compilation
    chan,             \* the buffered results of the bounded channel
    tx_alive,         \* main's Sender exists
    tx_clone_alive,   \* the callback's Sender clone exists
    rx_alive,         \* the Receiver exists
    agg_pc,           \* position of the aggregator thread
    agg_result,       \* what the aggregator closure returned
    agg_cur,          \* the result the aggregator is processing
    summary,          \* SearchSummary
    matched_files,    \* the HashSet of matched paths (main.rs:151)
    pending,          \* entries the walker has discovered and not visited
    w_pc,             \* position of each walker thread
    w_entry,          \* the entry each walker thread is visiting
    w_results,        \* results the callback has still to send
    total_files,      \* AtomicU64 of scan_directory
    processed_files,  \* AtomicU64 of scan_directory
    scan_result,      \* what scan_directory returned
    error_counts,     \* ErrorLogger.error_counts[FileRead]
    is_running,       \* CpuMonitor.is_running
    should_throttle,  \* CpuMonitor.should_throttle
    current_cpu_usage,\* CpuMonitor.current_cpu_usage (hundredths of a percent)
    mon_pc,           \* position of each sampling loop
    mon_sample,       \* the cpu_usage local of each sampling loop
    stop_called,      \* history: CpuMonitor::stop has been called
    c_pc,             \* position of each thread calling the monitor directly
    c_status,         \* the MonitorStatus get_status builds for each of them
    cb_calls,         \* history: invocations of the per-file callback per entry
    cb_errs,          \* history: callbacks that returned Err per entry
    reported,         \* the summaries printed by summary.print()
    sent,             \* history: results whose send returned Ok
    received,         \* history: results recv returned
    counted,          \* history: results the aggregator counted
    visited,          \* history: entries the visitor was called with
    search_calls,     \* history: search_in_file calls per entry
    error_calls,      \* history: log_error calls per entry
    send_failed,      \* history: failed sends per entry
    call,             \* a library function called on its own: name and arguments
    ret,              \* what that call returned
    el_enabled,       \* ErrorLogger.enabled
    err_lock,         \* the thread holding the error_counts mutex, 0 for none
    log_lines,        \* lines written to the debug log file
    lg_pc,            \* position of each thread calling the loggers directly
    lg_tmp,           \* the count a thread read under the mutex
    lg_last,          \* what the last logger call of each thread returned
    el_started,       \* history: log_error calls that passed the enabled test
    el_returned       \* history: those of them that have returned

logVars == <<el_enabled, err_lock, log_lines, lg_pc, lg_tmp, lg_last, el_started,
            el_returned>>
envVars == <<fs, args, log_enabled, logVars>>
mainVars == <<main_pc, main_result, matcher, scan_result, reported>>
chanVars == <<chan, tx_alive, tx_clone_alive, rx_alive>>
aggVars == <<agg_pc, agg_result, agg_cur, summary, matched_files>>
walkVars == <<pending, w_pc, w_entry, w_results, total_files, processed_files>>
monVars == <<is_running, should_throttle, current_cpu_usage, mon_pc, mon_sample,
            stop_called>>
callVars == <<c_pc, c_status>>
cbVars == <<cb_calls, cb_errs>>
histVars == <<sent, received, counted, visited, search_calls, error_calls, send_failed>>
pureVars == <<call, ret>>

vars == <<envVars, mainVars, chanVars, aggVars, walkVars, monVars, histVars,
          callVars, cbVars, error_counts, pureVars>>

Entries == DOMAIN fs

\* the aggregator holds no result
NoResult ==
    [path |-> <<>>, line_number |-> 0, line |-> <<>>, matched_text |-> <<>>,
     context_before |-> <<>>, context_after |-> <<>>]

\* no logger call has returned
NoLogCall ==
    [op |-> "none", result |-> "none", total |-> 0, has |-> FALSE, n |-> 0]

\* main.rs:104: the error logger of the pipeline is enabled; no thread calls
\* the loggers but through the pipeline
NoLogging ==
    /\ el_enabled = TRUE
    /\ err_lock = 0
    /\ log_lines = 0
    /\ lg_pc = [c \in Callers |-> "idle"]
    /\ lg_tmp = [c \in Callers |-> 0]
    /\ lg_last = [c \in Callers |-> NoLogCall]
    /\ el_started = 0
    /\ el_returned = 0

\* get_status has not returned a MonitorStatus
NoStatus ==
    [cpu_usage |-> 0, is_throttling |-> FALSE, is_running |-> FALSE,
     returned |-> FALSE]

\* no library function is called on its own; nothing has returned
NoCall == [fn |-> "none"]
NoRet == [done |-> FALSE]

Init ==
    /\ fs \in Trees
    /\ args \in ArgsSet
    /\ log_enabled \in BOOLEAN
    /\ NoLogging
    /\ main_pc = "start_monitor"
    /\ main_result = "running"
    /\ matcher = <<>>
    /\ chan = <<>>
    /\ tx_alive = FALSE
    /\ tx_clone_alive = FALSE
    /\ rx_alive = FALSE
    /\ agg_pc = "none"
    /\ agg_result = "none"
    /\ agg_cur = NoResult
    /\ summary = [total_files |-> 0, matched_files |-> 0, total_matches |-> 0]
    /\ matched_files = {}
    /\ pending = {}
    /\ w_pc = [w \in Workers |-> "idle"]
    /\ w_entry = [w \in Workers |-> 0]
    /\ w_results = [w \in Workers |-> <<>>]
    /\ total_files = 0
    /\ processed_files = 0
    /\ scan_result = <<>>
    /\ error_counts = 0
    /\ is_running = FALSE
    /\ should_throttle = FALSE
    /\ current_cpu_usage = 0
    /\ mon_pc = [l \in Loops |-> "none"]
    /\ mon_sample = [l \in Loops |-> 0]
    /\ stop_called = FALSE
    /\ c_pc = [c \in Callers |-> "idle"]
    /\ c_status = [c \in Callers |-> NoStatus]
    /\ cb_calls = [e \in DOMAIN fs |-> 0]
    /\ cb_errs = [e \in DOMAIN fs |-> 0]
    /\ reported = <<>>
    /\ sent = <<>>
    /\ received = <<>>
    /\ counted = <<>>
    /\ visited = {}
    /\ search_calls = [e \in DOMAIN fs |-> 0]
    /\ error_calls = [e \in DOMAIN fs |-> 0]
    /\ send_failed = [e \in DOMAIN fs |-> 0]
    /\ call = NoCall
    /\ ret = NoRet

\* main has returned: the process is gone, and every thread with it
Exited == main_pc \in {"done", "failed"}

\* what a logging call can return: Ok when logging is disabled (logging.rs:72),
\* Ok or an I/O error when it writes
LogOutcomes == IF log_enabled THEN {TRUE, FALSE} ELSE {TRUE}

(* ---------------------------------------------------------------------- *)
(* CpuMonitor (monitoring.rs:46-139)                                       *)
(* ---------------------------------------------------------------------- *)

\* thread::spawn of line 60: one more sampling loop
MonitorSpawn ==
    \E l \in Loops :
        /\ mon_pc[l] = "none"
        /\ \A k \in Loops : k < l => mon_pc[k] # "none"
        /\ mon_pc' = [mon_pc EXCEPT ![l] = "load"]

\* CpuMonitor::start, lines 48-91: nothing when already running, else set the
\* flag and spawn one sampling loop
MonitorStart ==
    IF is_running
    THEN UNCHANGED <<is_running, mon_pc>>
    ELSE /\ is_running' = TRUE
         /\ MonitorSpawn

\* CpuMonitor::start returns Err exactly when its log_message (line 94) fails
MonitorStartFails(log_ok) == ~is_running /\ ~log_ok

\* CpuMonitor::stop, line 104 (the log_message result is discarded)
MonitorStop ==
    /\ is_running' = FALSE
    /\ stop_called' = TRUE

\* the loop of line 64 as `loop`: the running flag is never tested
MonLoad_Forever(l) ==
    /\ ~Exited
    /\ mon_pc[l] = "load"
    /\ \E u \in CpuSamples :
           /\ mon_sample' = [mon_sample EXCEPT ![l] = u]
           /\ mon_pc' = [mon_pc EXCEPT ![l] = "store_usage"]
    /\ UNCHANGED <<is_running, should_throttle, current_cpu_usage, stop_called>>
    /\ UNCHANGED <<callVars, cbVars, pureVars, envVars, mainVars, chanVars, aggVars, walkVars, histVars, error_counts>>

\* the loop test of line 64, then lines 65-70: refresh and average the CPUs
MonLoad(l) ==
    /\ ~Exited
    /\ mon_pc[l] = "load"
    /\ IF is_running
       THEN \E u \in CpuSamples :
                /\ mon_sample' = [mon_sample EXCEPT ![l] = u]
                /\ mon_pc' = [mon_pc EXCEPT ![l] = "store_usage"]
       ELSE /\ mon_pc' = [mon_pc EXCEPT ![l] = "exited"]
            /\ UNCHANGED mon_sample
    /\ UNCHANGED <<is_running, should_throttle, current_cpu_usage, stop_called>>
    /\ UNCHANGED <<callVars, cbVars, pureVars, envVars, mainVars, chanVars, aggVars, walkVars, histVars, error_counts>>

\* line 73
MonStoreUsage(l) ==
    /\ ~Exited
    /\ mon_pc[l] = "store_usage"
    /\ current_cpu_usage' = to_stored(mon_sample[l])
    /\ mon_pc' = [mon_pc EXCEPT ![l] = "store_flag"]
    /\ UNCHANGED <<is_running, should_throttle, mon_sample, stop_called>>
    /\ UNCHANGED <<callVars, cbVars, pureVars, envVars, mainVars, chanVars, aggVars, walkVars, histVars, error_counts>>

\* lines 76-77 setting the flag and never clearing it
MonStoreFlag_Sticky(l) ==
    /\ ~Exited
    /\ mon_pc[l] = "store_flag"
    /\ should_throttle' = (should_throttle \/ AboveThreshold(mon_sample[l]))
    /\ mon_pc' = [mon_pc EXCEPT ![l] = "load"]
    /\ UNCHANGED <<is_running, current_cpu_usage, mon_sample, stop_called>>
    /\ UNCHANGED <<callVars, cbVars, pureVars, envVars, mainVars, chanVars, aggVars, walkVars, histVars, error_counts>>

\* lines 76-77, then the log of lines 80-87 (result discarded) and the sleep
MonStoreFlag(l) ==
    /\ ~Exited
    /\ mon_pc[l] = "store_flag"
    /\ should_throttle' = AboveThreshold(mon_sample[l])
    /\ mon_pc' = [mon_pc EXCEPT ![l] = "load"]
    /\ UNCHANGED <<is_running, current_cpu_usage, mon_sample, stop_called>>
    /\ UNCHANGED <<callVars, cbVars, pureVars, envVars, mainVars, chanVars, aggVars, walkVars, histVars, error_counts>>

\* the sampling loops spawned so far, and the slots left for more
SpawnedLoops == {l \in Loops : mon_pc[l] # "none"}

FreeLoops == Loops \ SpawnedLoops

\* the callers inside start, past the test of line 48
Starting == {c \in Callers : c_pc[c] \in {"start_store", "start_spawn"}}

\* start, lines 48-50: is_running.load; Ok(()) at once when it is set (a call
\* is begun only while a loop slot is left for it)
CallStartLoad(c) ==
    /\ main_pc = "library"
    /\ c_pc[c] = "idle"
    /\ Cardinality(FreeLoops) > Cardinality(Starting)
    /\ c_pc' = [c_pc EXCEPT ![c] = IF is_running THEN "idle" ELSE "start_store"]
    /\ UNCHANGED <<c_status, cbVars, pureVars, envVars, mainVars, chanVars, aggVars, walkVars, monVars, histVars, error_counts>>

\* start, line 52: is_running.store(true)
CallStartStore(c) ==
    /\ main_pc = "library"
    /\ c_pc[c] = "start_store"
    /\ is_running' = TRUE
    /\ c_pc' = [c_pc EXCEPT ![c] = "start_spawn"]
    /\ UNCHANGED <<should_throttle, current_cpu_usage, mon_pc, mon_sample, stop_called>>
    /\ UNCHANGED <<c_status, cbVars, pureVars, envVars, mainVars, chanVars, aggVars, walkVars, histVars, error_counts>>

\* start, lines 60-100: thread::spawn, then the log_message whose Err goes to
\* the caller
CallStartSpawn(c) ==
    /\ main_pc = "library"
    /\ c_pc[c] = "start_spawn"
    /\ MonitorSpawn
    /\ c_pc' = [c_pc EXCEPT ![c] = "idle"]
    /\ UNCHANGED <<is_running, should_throttle, current_cpu_usage, mon_sample, stop_called>>
    /\ UNCHANGED <<c_status, cbVars, pureVars, envVars, mainVars, chanVars, aggVars, walkVars, histVars, error_counts>>

\* stop clearing the throttle flag with the running flag
CallStop_ResetsFlag(c) ==
    /\ main_pc = "library"
    /\ c_pc[c] = "idle"
    /\ is_running' = FALSE
    /\ stop_called' = TRUE
    /\ should_throttle' = FALSE
    /\ UNCHANGED <<current_cpu_usage, mon_pc, mon_sample>>
    /\ UNCHANGED <<callVars, cbVars, pureVars, envVars, mainVars, chanVars, aggVars, walkVars, histVars, error_counts>>

\* stop, lines 103-109
CallStop(c) ==
    /\ main_pc = "library"
    /\ c_pc[c] = "idle"
    /\ MonitorStop
    /\ UNCHANGED <<should_throttle, current_cpu_usage, mon_pc, mon_sample>>
    /\ UNCHANGED <<callVars, cbVars, pureVars, envVars, mainVars, chanVars, aggVars, walkVars, histVars, error_counts>>

\* apply_throttle, lines 119-123: sleep when should_throttle() is set, return
\* at once when it is not
CallApplyThrottle(c) ==
    /\ main_pc = "library"
    /\ c_pc[c] = "idle"
    /\ c_pc' = [c_pc EXCEPT ![c] = IF should_throttle THEN "sleeping" ELSE "idle"]
    /\ UNCHANGED <<c_status, cbVars, pureVars, envVars, mainVars, chanVars, aggVars, walkVars, monVars, histVars, error_counts>>

\* apply_throttle as `while should_throttle() { sleep }`
CallWake_WhileFlag(c) ==
    /\ main_pc = "library"
    /\ c_pc[c] = "sleeping"
    /\ c_pc' = [c_pc EXCEPT ![c] = IF should_throttle THEN "sleeping" ELSE "idle"]
    /\ UNCHANGED <<c_status, cbVars, pureVars, envVars, mainVars, chanVars, aggVars, walkVars, monVars, histVars, error_counts>>

\* apply_throttle, line 121: the sleep of search_delay_ms ends
CallWake(c) ==
    /\ main_pc = "library"
    /\ c_pc[c] = "sleeping"
    /\ c_pc' = [c_pc EXCEPT ![c] = "idle"]
    /\ UNCHANGED <<c_status, cbVars, pureVars, envVars, mainVars, chanVars, aggVars, walkVars, monVars, histVars, error_counts>>

\* get_status, line 127: get_cpu_usage() loads the stored usage
CallStatusUsage(c) ==
    /\ main_pc = "library"
    /\ c_pc[c] = "idle"
    /\ c_pc' = [c_pc EXCEPT ![c] = "status_flag"]
    /\ c_status' = [c_status EXCEPT
                       ![c] = [NoStatus EXCEPT
                                 !.cpu_usage = from_stored(current_cpu_usage)]]
    /\ UNCHANGED <<cbVars, pureVars, envVars, mainVars, chanVars, aggVars, walkVars, monVars, histVars, error_counts>>

\* get_status, line 129: should_throttle() loads the flag
CallStatusFlag(c) ==
    /\ main_pc = "library"
    /\ c_pc[c] = "status_flag"
    /\ c_pc' = [c_pc EXCEPT ![c] = "status_running"]
    /\ c_status' = [c_status EXCEPT ![c].is_throttling = should_throttle]
    /\ UNCHANGED <<cbVars, pureVars, envVars, mainVars, chanVars, aggVars, walkVars, monVars, histVars, error_counts>>

\* get_status, line 130: is_running.load; the MonitorStatus is returned
CallStatusRunning(c) ==
    /\ main_pc = "library"
    /\ c_pc[c] = "status_running"
    /\ c_pc' = [c_pc EXCEPT ![c] = "idle"]
    /\ c_status' = [c_status EXCEPT ![c].is_running = is_running,
                                    ![c].returned = TRUE]
    /\ UNCHANGED <<cbVars, pureVars, envVars, mainVars, chanVars, aggVars, walkVars, monVars, histVars, error_counts>>

(* ---------------------------------------------------------------------- *)
(* main (main.rs:87-304)                                                   *)
(* ---------------------------------------------------------------------- *)

\* main returns Err(err): its locals are dropped (the Sender; the CpuMonitor,
\* whose Drop calls stop)
MainFail(err) ==
    /\ main_pc' = "failed"
    /\ main_result' = err
    /\ tx_alive' = FALSE

\* line 108: cpu_monitor.start()?
StartMonitor ==
    /\ main_pc = "start_monitor"
    /\ \E log_ok \in LogOutcomes :
         IF MonitorStartFails(log_ok)
         THEN \* the loop was spawned at line 60; dropping the monitor stops it
              /\ MainFail("Err(log)")
              /\ MonitorSpawn
              /\ MonitorStop
         ELSE /\ MonitorStart
              /\ main_pc' = "compile"
              /\ UNCHANGED <<main_result, tx_alive, stop_called>>
    /\ UNCHANGED <<should_throttle, current_cpu_usage, mon_sample>>
    /\ UNCHANGED <<matcher, scan_result, reported, chan, tx_clone_alive, rx_alive>>
    /\ UNCHANGED <<callVars, cbVars, pureVars, envVars, aggVars, walkVars, histVars, error_counts>>

\* lines 111-112: from_input(..)?, get_matcher()?
Compile ==
    /\ main_pc = "compile"
    /\ LET pattern == from_input(args.pattern, args.regex, args.hex)
       IN IF pattern.tag = "Err"
          THEN /\ MainFail("Err(pattern)")
               /\ MonitorStop
               /\ UNCHANGED matcher
          ELSE /\ matcher' = get_matcher(pattern)
               /\ main_pc' = "spawn"
               /\ UNCHANGED <<main_result, tx_alive, is_running, stop_called>>
    /\ UNCHANGED <<should_throttle, current_cpu_usage, mon_pc, mon_sample>>
    /\ UNCHANGED <<scan_result, reported, chan, tx_clone_alive, rx_alive>>
    /\ UNCHANGED <<callVars, cbVars, pureVars, envVars, aggVars, walkVars, histVars, error_counts>>

\* lines 148-185: the summary, the channel, the aggregator thread
Spawn ==
    /\ main_pc = "spawn"
    /\ chan' = <<>>
    /\ tx_alive' = TRUE
    /\ rx_alive' = TRUE
    /\ agg_pc' = "recv"
    /\ main_pc' = "log_params"
    /\ UNCHANGED <<main_result, matcher, scan_result, reported, tx_clone_alive>>
    /\ UNCHANGED <<agg_result, agg_cur, summary, matched_files>>
    /\ UNCHANGED <<callVars, cbVars, pureVars, envVars, walkVars, monVars, histVars, error_counts>>

\* lines 204-217: logger.log_message(..)? for every parameter
LogParams ==
    /\ main_pc = "log_params"
    /\ \E log_ok \in LogOutcomes :
         IF log_ok
         THEN /\ main_pc' = "walk_start"
              /\ UNCHANGED <<main_result, tx_alive, is_running, stop_called>>
         ELSE /\ MainFail("Err(log)")
              /\ MonitorStop
    /\ UNCHANGED <<should_throttle, current_cpu_usage, mon_pc, mon_sample>>
    /\ UNCHANGED <<matcher, scan_result, reported, chan, tx_clone_alive, rx_alive>>
    /\ UNCHANGED <<callVars, cbVars, pureVars, envVars, aggVars, walkVars, histVars, error_counts>>

\* lines 220-228 and file_walker.rs:117-148: the callback takes tx_clone, the
\* counters start at 0, the walker starts at the search path
WalkStart ==
    /\ main_pc = "walk_start"
    /\ tx_clone_alive' = TRUE
    /\ pending' = {1}
    /\ total_files' = 0
    /\ processed_files' = 0
    /\ main_pc' = "walk"
    /\ UNCHANGED <<main_result, matcher, scan_result, reported, chan, tx_alive, rx_alive>>
    /\ UNCHANGED <<w_pc, w_entry, w_results>>
    /\ UNCHANGED <<callVars, cbVars, pureVars, envVars, aggVars, monVars, histVars, error_counts>>

\* file_walker.rs:232-240: run() has returned (every worker thread finished),
\* the counters are read, the callback and its Sender are dropped
WalkReturn ==
    /\ main_pc = "walk"
    /\ pending = {}
    /\ \A w \in Workers : w_pc[w] = "idle"
    /\ scan_result' = <<total_files, processed_files>>
    /\ tx_clone_alive' = FALSE
    /\ main_pc' = "drop_tx"
    /\ UNCHANGED <<main_result, matcher, reported, chan, tx_alive, rx_alive>>
    /\ UNCHANGED <<callVars, cbVars, pureVars, envVars, aggVars, walkVars, monVars, histVars, error_counts>>

\* line 266 left out: main keeps its Sender while it joins
DropTx_Kept ==
    /\ main_pc = "drop_tx"
    /\ main_pc' = "join"
    /\ UNCHANGED <<main_result, matcher, scan_result, reported, chanVars>>
    /\ UNCHANGED <<callVars, cbVars, pureVars, envVars, aggVars, walkVars, monVars, histVars, error_counts>>

\* line 266: drop(tx)
DropTx ==
    /\ main_pc = "drop_tx"
    /\ tx_alive' = FALSE
    /\ main_pc' = "join"
    /\ UNCHANGED <<main_result, matcher, scan_result, reported, chan, tx_clone_alive, rx_alive>>
    /\ UNCHANGED <<callVars, cbVars, pureVars, envVars, aggVars, walkVars, monVars, histVars, error_counts>>

\* lines 269-271 without the wait: main goes on while the aggregator runs
Join_Detached ==
    /\ main_pc = "join"
    /\ main_pc' = "set_total"
    /\ UNCHANGED <<main_result, matcher, scan_result, reported>>
    /\ UNCHANGED <<callVars, cbVars, pureVars, envVars, chanVars, aggVars, walkVars, monVars, histVars, error_counts>>

\* lines 269-271: handle.join(); an Err of the aggregator is only printed
Join ==
    /\ main_pc = "join"
    /\ agg_pc = "finished"
    /\ main_pc' = "set_total"
    /\ UNCHANGED <<main_result, matcher, scan_result, reported>>
    /\ UNCHANGED <<callVars, cbVars, pureVars, envVars, chanVars, aggVars, walkVars, monVars, histVars, error_counts>>

\* lines 274-275 building a new summary from the walk's count
SetTotal_Fresh ==
    /\ main_pc = "set_total"
    /\ summary' = [total_files |-> scan_result[1], matched_files |-> 0, total_matches |-> 0]
    /\ main_pc' = "stop_monitor"
    /\ UNCHANGED <<main_result, matcher, scan_result, reported>>
    /\ UNCHANGED <<agg_pc, agg_result, agg_cur, matched_files>>
    /\ UNCHANGED <<callVars, cbVars, pureVars, envVars, chanVars, walkVars, monVars, histVars, error_counts>>

\* lines 274-275: summary.total_files = total_files
SetTotal ==
    /\ main_pc = "set_total"
    /\ summary' = [summary EXCEPT !.total_files = scan_result[1]]
    /\ main_pc' = "stop_monitor"
    /\ UNCHANGED <<main_result, matcher, scan_result, reported>>
    /\ UNCHANGED <<agg_pc, agg_result, agg_cur, matched_files>>
    /\ UNCHANGED <<callVars, cbVars, pureVars, envVars, chanVars, walkVars, monVars, histVars, error_counts>>

\* line 281: cpu_monitor.stop()
StopMonitor ==
    /\ main_pc = "stop_monitor"
    /\ MonitorStop
    /\ main_pc' = "finalize"
    /\ UNCHANGED <<should_throttle, current_cpu_usage, mon_pc, mon_sample>>
    /\ UNCHANGED <<main_result, matcher, scan_result, reported>>
    /\ UNCHANGED <<callVars, cbVars, pureVars, envVars, chanVars, aggVars, walkVars, histVars, error_counts>>

\* line 284: error_logger.finalize()? writes the error log (always enabled)
Finalize ==
    /\ main_pc = "finalize"
    /\ \E write_ok \in BOOLEAN :
         IF write_ok
         THEN /\ main_pc' = "report"
              /\ UNCHANGED <<main_result, tx_alive>>
         ELSE MainFail("Err(finalize)")
    /\ UNCHANGED <<matcher, scan_result, reported, chan, tx_clone_alive, rx_alive>>
    /\ UNCHANGED <<callVars, cbVars, pureVars, envVars, aggVars, walkVars, monVars, histVars, error_counts>>

\* lines 287-301: summary.print(), the monitor status, then
\* logger.finalize(..)? and logger.log_message(..)? when logging is enabled
Report ==
    /\ main_pc = "report"
    /\ reported' = Append(reported, summary)
    /\ \E log_ok \in LogOutcomes :
         IF log_ok
         THEN /\ main_pc' = "done"
              /\ main_result' = "Ok"
              /\ UNCHANGED tx_alive
         ELSE MainFail("Err(log)")
    /\ UNCHANGED <<matcher, scan_result, chan, tx_clone_alive, rx_alive>>
    /\ UNCHANGED <<callVars, cbVars, pureVars, envVars, aggVars, walkVars, monVars, histVars, error_counts>>

(* ---------------------------------------------------------------------- *)
(* scan_directory: the visitor each walker thread runs                     *)
(* (file_walker.rs:156-231) and the per-file callback (main.rs:234-262)    *)
(* ---------------------------------------------------------------------- *)

\* file_walker.rs:169 alone: every regular file is handed on, the filter is
\* not asked
Accepts_Unfiltered(e) == fs[e].kind = "file"

\* file_walker.rs:157-201: the entry is Ok, a regular file, and should_process
\* returns Ok(true)
Accepts(e) == fs[e].kind = "file" /\ should_process(TheFilter, fs[e])

\* file_walker.rs:164 returning WalkState::Quit: a walk error ends the walk
Discovered_QuitOnErr(e) ==
    IF fs[e].kind = "err" THEN {} ELSE (pending \ {e}) \cup fs[e].children

\* the visitor returns WalkState::Continue for every entry (file_walker.rs:164,
\* 170, 187, 196, 230): the walker goes on with the entries left and the
\* children of a directory
Discovered(e) == (pending \ {e}) \cup fs[e].children

\* file_walker.rs:156-216: take the next entry; a walk error, a non-file and a
\* filtered file are skipped (their log results discarded); an accepted file is
\* counted in total_files and handed to the callback
Visit(w) ==
    /\ main_pc = "walk"
    /\ w_pc[w] = "idle"
    /\ \E e \in pending :
         /\ pending' = Discovered(e)
         /\ visited' = visited \cup {e}
         /\ IF Accepts(e)
            THEN /\ total_files' = total_files + 1
                 /\ w_entry' = [w_entry EXCEPT ![w] = e]
                 /\ w_pc' = [w_pc EXCEPT ![w] = "callback"]
            ELSE UNCHANGED <<total_files, w_entry, w_pc>>
    /\ UNCHANGED <<w_results, processed_files>>
    /\ UNCHANGED <<sent, received, counted, search_calls, error_calls, send_failed>>
    /\ UNCHANGED <<callVars, cbVars, pureVars, envVars, mainVars, chanVars, aggVars, monVars, error_counts>>

\* main.rs:234-236 and monitoring.rs:119-123: the callback is entered and its
\* apply_throttle reads the flag
ApplyThrottle(w) ==
    /\ w_pc[w] = "callback"
    /\ cb_calls' = [cb_calls EXCEPT ![w_entry[w]] = @ + 1]
    /\ w_pc' = [w_pc EXCEPT ![w] = IF should_throttle THEN "sleeping" ELSE "search"]
    /\ UNCHANGED <<pending, w_entry, w_results, total_files, processed_files>>
    /\ UNCHANGED <<callVars, cb_errs, pureVars, envVars, mainVars, chanVars, aggVars, monVars, histVars, error_counts>>

\* monitoring.rs:119-123 sleeping for as long as the flag is set
Wake_WhileFlag(w) ==
    /\ w_pc[w] = "sleeping"
    /\ ~should_throttle
    /\ w_pc' = [w_pc EXCEPT ![w] = "search"]
    /\ UNCHANGED <<pending, w_entry, w_results, total_files, processed_files>>
    /\ UNCHANGED <<callVars, cbVars, pureVars, envVars, mainVars, chanVars, aggVars, monVars, histVars, error_counts>>

\* monitoring.rs:121: the sleep of search_delay_ms ends
Wake(w) ==
    /\ w_pc[w] = "sleeping"
    /\ w_pc' = [w_pc EXCEPT ![w] = "search"]
    /\ UNCHANGED <<pending, w_entry, w_results, total_files, processed_files>>
    /\ UNCHANGED <<callVars, cbVars, pureVars, envVars, mainVars, chanVars, aggVars, monVars, histVars, error_counts>>

\* the results search_in_file returns for entry e
ResultsOf(e) == search_in_file(fs[e].path, fs[e].lines, matcher, ContextLines)

\* ErrorLogger::log_error returning at line 88, as for a disabled logger
log_error_NotCounted(counts) == counts

\* ErrorLogger::log_error of an enabled logger (error_logging.rs:94-98): one
\* more error of the type; the result of the write that follows is discarded
log_error(counts) == counts + 1

\* main.rs:239-258: search_in_file; Err is given to error_logger.log_error
\* (error_logging.rs:94-98 counts it; the write's result is discarded)
Search(w) ==
    /\ w_pc[w] = "search"
    /\ LET e == w_entry[w]
       IN /\ search_calls' = [search_calls EXCEPT ![e] = @ + 1]
          /\ IF fs[e].readable
             THEN /\ w_results' = [w_results EXCEPT ![w] = ResultsOf(e)]
                  /\ w_pc' = [w_pc EXCEPT ![w] =
                                 IF ResultsOf(e) = <<>> THEN "ret" ELSE "send"]
                  /\ UNCHANGED <<error_counts, error_calls>>
             ELSE /\ error_counts' = log_error(error_counts)
                  /\ error_calls' = [error_calls EXCEPT ![e] = @ + 1]
                  /\ w_pc' = [w_pc EXCEPT ![w] = "ret"]
                  /\ UNCHANGED w_results
    /\ UNCHANGED <<pending, w_entry, total_files, processed_files>>
    /\ UNCHANGED <<sent, received, counted, visited, send_failed>>
    /\ UNCHANGED <<callVars, cbVars, pureVars, envVars, mainVars, chanVars, aggVars, monVars>>

\* main.rs:154 with an unbounded channel
HasCapacity_Unbounded(buffer) == TRUE

\* main.rs:154: bounded(100): a send goes through only below the capacity
HasCapacity(buffer) == Len(buffer) < ChanCap

\* main.rs:243-245 without the break: the loop goes on to the next result
AfterSendErr_Continue(results) == Tail(results)

\* main.rs:243-245: the break on a failed send leaves nothing to send
AfterSendErr(results) == <<>>

\* main.rs:242-246: tx_clone.send(result) blocks while the channel is full and
\* fails once the receiver is gone; a failure breaks the loop
Send(w) ==
    /\ w_pc[w] = "send"
    /\ IF rx_alive
       THEN /\ HasCapacity(chan)
            /\ chan' = Append(chan, Head(w_results[w]))
            /\ sent' = Append(sent, Head(w_results[w]))
            /\ w_results' = [w_results EXCEPT ![w] = Tail(@)]
            /\ w_pc' = [w_pc EXCEPT ![w] =
                           IF Tail(w_results[w]) = <<>> THEN "ret" ELSE "send"]
            /\ UNCHANGED send_failed
       ELSE /\ send_failed' = [send_failed EXCEPT ![w_entry[w]] = @ + 1]
            /\ w_results' = [w_results EXCEPT ![w] = AfterSendErr(@)]
            /\ w_pc' = [w_pc EXCEPT ![w] =
                           IF AfterSendErr(w_results[w]) = <<>> THEN "ret" ELSE "send"]
            /\ UNCHANGED <<chan, sent>>
    /\ UNCHANGED <<tx_alive, tx_clone_alive, rx_alive>>
    /\ UNCHANGED <<pending, w_entry, total_files, processed_files>>
    /\ UNCHANGED <<received, counted, visited, search_calls, error_calls>>
    /\ UNCHANGED <<callVars, cbVars, pureVars, envVars, mainVars, aggVars, monVars, error_counts>>

\* file_walker.rs:219 with a callback of the caller's choice (scan_directory is
\* generic over F: Fn(&DirEntry) -> Result<()>): it returns Ok or Err
AnyCallback(w) ==
    /\ main_pc = "walk"
    /\ w_pc[w] = "callback"
    /\ cb_calls' = [cb_calls EXCEPT ![w_entry[w]] = @ + 1]
    /\ \E ok \in BOOLEAN :
         /\ w_pc' = [w_pc EXCEPT ![w] = IF ok THEN "ret" ELSE "ret_err"]
         /\ cb_errs' = [cb_errs EXCEPT ![w_entry[w]] = IF ok THEN @ ELSE @ + 1]
    /\ UNCHANGED <<pending, w_entry, w_results, total_files, processed_files>>
    /\ UNCHANGED <<callVars, pureVars, envVars, mainVars, chanVars, aggVars, monVars, histVars, error_counts>>

\* file_walker.rs:219-225 calling the callback again after an Err
AfterCallbackErr_Retry == "callback"

\* file_walker.rs:219-230: after an Err of the callback the visitor returns
\* WalkState::Continue
AfterCallbackErr == "idle"

\* file_walker.rs:219-225: the callback returned Err: it is logged (the result
\* of the log discarded), processed_files is left alone
RetErr(w) ==
    /\ w_pc[w] = "ret_err"
    /\ w_pc' = [w_pc EXCEPT ![w] = AfterCallbackErr]
    /\ w_entry' = [w_entry EXCEPT ![w] = IF AfterCallbackErr = "idle" THEN 0 ELSE @]
    /\ UNCHANGED <<pending, w_results, total_files, processed_files>>
    /\ UNCHANGED <<callVars, cbVars, pureVars, envVars, mainVars, chanVars, aggVars, monVars, histVars, error_counts>>

\* file_walker.rs:227 left out: a successful callback is not counted
Ret_Uncounted(w) ==
    /\ w_pc[w] = "ret"
    /\ w_pc' = [w_pc EXCEPT ![w] = "idle"]
    /\ w_entry' = [w_entry EXCEPT ![w] = 0]
    /\ UNCHANGED <<pending, w_results, total_files, processed_files>>
    /\ UNCHANGED <<callVars, cbVars, pureVars, envVars, mainVars, chanVars, aggVars, monVars, histVars, error_counts>>

\* file_walker.rs:227 counting only the files that could be read
Ret_OnlyReadable(w) ==
    /\ w_pc[w] = "ret"
    /\ processed_files' = IF fs[w_entry[w]].readable THEN processed_files + 1
                                                     ELSE processed_files
    /\ w_pc' = [w_pc EXCEPT ![w] = "idle"]
    /\ w_entry' = [w_entry EXCEPT ![w] = 0]
    /\ UNCHANGED <<pending, w_results, total_files>>
    /\ UNCHANGED <<callVars, cbVars, pureVars, envVars, mainVars, chanVars, aggVars, monVars, histVars, error_counts>>

\* main.rs:261 and file_walker.rs:219-230: the callback returns Ok(()), the
\* visitor counts the file in processed_files and asks for the next entry
Ret(w) ==
    /\ w_pc[w] = "ret"
    /\ processed_files' = processed_files + 1
    /\ w_pc' = [w_pc EXCEPT ![w] = "idle"]
    /\ w_entry' = [w_entry EXCEPT ![w] = 0]
    /\ UNCHANGED <<pending, w_results, total_files>>
    /\ UNCHANGED <<callVars, cbVars, pureVars, envVars, mainVars, chanVars, aggVars, monVars, histVars, error_counts>>

(* ---------------------------------------------------------------------- *)
(* The aggregator thread (main.rs:161-185)                                 *)
(* ---------------------------------------------------------------------- *)

\* the closure returns and its Receiver lives on
AggReturn_RxKept(result) ==
    /\ agg_pc' = "finished"
    /\ agg_result' = result
    /\ agg_cur' = NoResult
    /\ UNCHANGED <<rx_alive, chan>>

\* the closure returns: the Receiver it owns is dropped with the buffer
AggReturn(result) ==
    /\ agg_pc' = "finished"
    /\ agg_result' = result
    /\ agg_cur' = NoResult
    /\ rx_alive' = FALSE
    /\ chan' = <<>>

\* line 163 with a recv that leaves the result in the buffer
Recv_NoPop ==
    /\ ~Exited
    /\ agg_pc = "recv"
    /\ chan # <<>>
    /\ agg_cur' = Head(chan)
    /\ received' = Append(received, Head(chan))
    /\ agg_pc' = "process"
    /\ UNCHANGED <<agg_result, summary, matched_files, chanVars>>
    /\ UNCHANGED <<sent, counted, visited, search_calls, error_calls, send_failed>>
    /\ UNCHANGED <<callVars, cbVars, pureVars, envVars, mainVars, walkVars, monVars, error_counts>>

\* line 163: rx.recv() returns Ok(result)
Recv ==
    /\ ~Exited
    /\ agg_pc = "recv"
    /\ chan # <<>>
    /\ agg_cur' = Head(chan)
    /\ chan' = Tail(chan)
    /\ received' = Append(received, Head(chan))
    /\ agg_pc' = "process"
    /\ UNCHANGED <<agg_result, summary, matched_files>>
    /\ UNCHANGED <<tx_alive, tx_clone_alive, rx_alive>>
    /\ UNCHANGED <<sent, counted, visited, search_calls, error_calls, send_failed>>
    /\ UNCHANGED <<callVars, cbVars, pureVars, envVars, mainVars, walkVars, monVars, error_counts>>

\* line 163: rx.recv() returns Err: the channel is empty and every Sender is
\* dropped; the loop ends and the closure returns Ok(())
RecvClosed ==
    /\ ~Exited
    /\ agg_pc = "recv"
    /\ chan = <<>>
    /\ ~tx_alive /\ ~tx_clone_alive
    /\ AggReturn("Ok")
    /\ UNCHANGED <<summary, matched_files>>
    /\ UNCHANGED <<tx_alive, tx_clone_alive>>
    /\ UNCHANGED <<callVars, cbVars, pureVars, envVars, mainVars, walkVars, monVars, histVars, error_counts>>

\* lines 171-175 without the test of the insert
CountResult_EveryResult(s, is_new) ==
    [s EXCEPT !.total_matches = @ + 1, !.matched_files = @ + 1]

\* lines 171-175: one more match; one more matched file when the insert into
\* the path set reports a new path
CountResult(s, is_new) ==
    [s EXCEPT !.total_matches = @ + 1,
              !.matched_files = IF is_new THEN @ + 1 ELSE @]

\* lines 165-181: print the result (?), count it, record its path, and log the
\* first match of a file (?)
Process ==
    /\ ~Exited
    /\ agg_pc = "process"
    /\ \E print_ok \in BOOLEAN, log_ok \in LogOutcomes :
         IF ~print_ok
         THEN /\ AggReturn("Err(print)")
              /\ UNCHANGED <<summary, matched_files, counted>>
         ELSE LET is_new == agg_cur.path \notin matched_files
              IN /\ summary' = CountResult(summary, is_new)
                 /\ matched_files' = matched_files \cup {agg_cur.path}
                 /\ counted' = Append(counted, agg_cur)
                 /\ IF is_new /\ ~log_ok
                    THEN AggReturn("Err(log)")
                    ELSE /\ agg_pc' = "recv"
                         /\ agg_cur' = NoResult
                         /\ UNCHANGED <<agg_result, rx_alive, chan>>
    /\ UNCHANGED <<tx_alive, tx_clone_alive>>
    /\ UNCHANGED <<sent, received, visited, search_calls, error_calls, send_failed>>
    /\ UNCHANGED <<callVars, cbVars, pureVars, envVars, mainVars, walkVars, monVars, error_counts>>

(* ---------------------------------------------------------------------- *)
(* The pipeline                                                            *)
(* ---------------------------------------------------------------------- *)

MainStep ==
    \/ StartMonitor \/ Compile \/ Spawn \/ LogParams \/ WalkStart \/ WalkReturn
    \/ DropTx \/ Join \/ SetTotal \/ StopMonitor \/ Finalize \/ Report

WorkerStep(w) == Visit(w) \/ ApplyThrottle(w) \/ Wake(w) \/ Search(w) \/ Send(w) \/ Ret(w)

AggStep == Recv \/ RecvClosed \/ Process

MonStep(l) == MonLoad(l) \/ MonStoreUsage(l) \/ MonStoreFlag(l)

Next ==
    \/ MainStep
    \/ \E w \in Workers : WorkerStep(w)
    \/ AggStep
    \/ \E l \in Loops : MonStep(l)

Spec == Init /\ [][Next]_vars

\* every thread of the process is scheduled again and again
Fairness ==
    /\ WF_vars(MainStep)
    /\ \A w \in Workers : WF_vars(WorkerStep(w))
    /\ WF_vars(AggStep)

FairSpec == Spec /\ Fairness

(* ---------------------------------------------------------------------- *)
(* scan_directory on its own, called with any callback                     *)
(* ---------------------------------------------------------------------- *)

\* file_walker.rs:117-148: scan_directory has been called (no channel, no
\* aggregator, no monitor): the counters are 0, the walker is at the root
ScanInit ==
    /\ fs \in Trees
    /\ args = Arg(<<"a", "b">>, FALSE, FALSE)
    /\ log_enabled \in BOOLEAN
    /\ NoLogging
    /\ main_pc = "walk"
    /\ main_result = "running"
    /\ matcher = <<>>
    /\ chan = <<>>
    /\ tx_alive = FALSE
    /\ tx_clone_alive = FALSE
    /\ rx_alive = FALSE
    /\ agg_pc = "none"
    /\ agg_result = "none"
    /\ agg_cur = NoResult
    /\ summary = [total_files |-> 0, matched_files |-> 0, total_matches |-> 0]
    /\ matched_files = {}
    /\ pending = {1}
    /\ w_pc = [w \in Workers |-> "idle"]
    /\ w_entry = [w \in Workers |-> 0]
    /\ w_results = [w \in Workers |-> <<>>]
    /\ total_files = 0
    /\ processed_files = 0
    /\ scan_result = <<>>
    /\ error_counts = 0
    /\ is_running = FALSE
    /\ should_throttle = FALSE
    /\ current_cpu_usage = 0
    /\ mon_pc = [l \in Loops |-> "none"]
    /\ mon_sample = [l \in Loops |-> 0]
    /\ stop_called = FALSE
    /\ c_pc = [c \in Callers |-> "idle"]
    /\ c_status = [c \in Callers |-> NoStatus]
    /\ cb_calls = [e \in DOMAIN fs |-> 0]
    /\ cb_errs = [e \in DOMAIN fs |-> 0]
    /\ reported = <<>>
    /\ sent = <<>>
    /\ received = <<>>
    /\ counted = <<>>
    /\ visited = {}
    /\ search_calls = [e \in DOMAIN fs |-> 0]
    /\ error_calls = [e \in DOMAIN fs |-> 0]
    /\ send_failed = [e \in DOMAIN fs |-> 0]
    /\ call = NoCall
    /\ ret = NoRet

ScanWorkerStep(w) == Visit(w) \/ AnyCallback(w) \/ Ret(w) \/ RetErr(w)

ScanNext ==
    \/ \E w \in Workers : ScanWorkerStep(w)
    \/ WalkReturn

ScanSpec == ScanInit /\ [][ScanNext]_vars

(* ---------------------------------------------------------------------- *)
(* One CpuMonitor shared by threads that call it directly                  *)
(* ---------------------------------------------------------------------- *)

\* monitoring.rs:34-43: CpuMonitor::new; nothing of the pipeline runs
MonInit ==
    /\ fs = TreeC
    /\ args = Arg(<<"a", "b">>, FALSE, FALSE)
    /\ log_enabled \in BOOLEAN
    /\ NoLogging
    /\ main_pc = "library"
    /\ main_result = "running"
    /\ matcher = <<>>
    /\ chan = <<>>
    /\ tx_alive = FALSE
    /\ tx_clone_alive = FALSE
    /\ rx_alive = FALSE
    /\ agg_pc = "none"
    /\ agg_result = "none"
    /\ agg_cur = NoResult
    /\ summary = [total_files |-> 0, matched_files |-> 0, total_matches |-> 0]
    /\ matched_files = {}
    /\ pending = {}
    /\ w_pc = [w \in Workers |-> "idle"]
    /\ w_entry = [w \in Workers |-> 0]
    /\ w_results = [w \in Workers |-> <<>>]
    /\ total_files = 0
    /\ processed_files = 0
    /\ scan_result = <<>>
    /\ error_counts = 0
    /\ is_running = FALSE
    /\ should_throttle = FALSE
    /\ current_cpu_usage = 0
    /\ mon_pc = [l \in Loops |-> "none"]
    /\ mon_sample = [l \in Loops |-> 0]
    /\ stop_called = FALSE
    /\ c_pc = [c \in Callers |-> "idle"]
    /\ c_status = [c \in Callers |-> NoStatus]
    /\ cb_calls = [e \in DOMAIN fs |-> 0]
    /\ cb_errs = [e \in DOMAIN fs |-> 0]
    /\ reported = <<>>
    /\ sent = <<>>
    /\ received = <<>>
    /\ counted = <<>>
    /\ visited = {}
    /\ search_calls = [e \in DOMAIN fs |-> 0]
    /\ error_calls = [e \in DOMAIN fs |-> 0]
    /\ send_failed = [e \in DOMAIN fs |-> 0]
    /\ call = NoCall
    /\ ret = NoRet

CallerStep(c) ==
    \/ CallStartLoad(c) \/ CallStartStore(c) \/ CallStartSpawn(c)
    \/ CallStop(c) \/ CallApplyThrottle(c) \/ CallWake(c)

MonNext ==
    \/ \E c \in Callers : CallerStep(c)
    \/ \E l \in Loops : MonStep(l)

MonSpec == MonInit /\ [][MonNext]_vars

\* each sampling loop is a thread of its own that wakes from its one-second
\* sleep (monitoring.rs:60, 89) and is scheduled again
MonFairness == \A l \in Loops : WF_vars(MonStep(l))

FairMonSpec == MonSpec /\ MonFairness

\* one thread owns the monitor and calls start, stop, apply_throttle and
\* get_status one after the other, as main does (main.rs:127-135, 235, 283,
\* 290); the sampling loops run beside it
Owner == 1

StatusStep(c) == CallStatusUsage(c) \/ CallStatusFlag(c) \/ CallStatusRunning(c)

OwnerNext ==
    \/ CallerStep(Owner)
    \/ StatusStep(Owner)
    \/ \E l \in Loops : MonStep(l)

OwnerSpec == MonInit /\ [][OwnerNext]_vars

(* ---------------------------------------------------------------------- *)
(* Library functions called on their own, on inputs drawn from small sets  *)
(* ---------------------------------------------------------------------- *)

\* no thread of the pipeline and no monitor exists
PipelineIdle ==
    /\ fs = TreeC
    /\ args = Arg(<<"a", "b">>, FALSE, FALSE)
    /\ main_pc = "library"
    /\ main_result = "running"
    /\ matcher = <<>>
    /\ chan = <<>>
    /\ tx_alive = FALSE
    /\ tx_clone_alive = FALSE
    /\ rx_alive = FALSE
    /\ agg_pc = "none"
    /\ agg_result = "none"
    /\ agg_cur = NoResult
    /\ summary = [total_files |-> 0, matched_files |-> 0, total_matches |-> 0]
    /\ matched_files = {}
    /\ pending = {}
    /\ w_pc = [w \in Workers |-> "idle"]
    /\ w_entry = [w \in Workers |-> 0]
    /\ w_results = [w \in Workers |-> <<>>]
    /\ total_files = 0
    /\ processed_files = 0
    /\ scan_result = <<>>
    /\ error_counts = 0
    /\ is_running = FALSE
    /\ should_throttle = FALSE
    /\ current_cpu_usage = 0
    /\ mon_pc = [l \in Loops |-> "none"]
    /\ mon_sample = [l \in Loops |-> 0]
    /\ stop_called = FALSE
    /\ c_pc = [c \in Callers |-> "idle"]
    /\ c_status = [c \in Callers |-> NoStatus]
    /\ cb_calls = [e \in DOMAIN fs |-> 0]
    /\ cb_errs = [e \in DOMAIN fs |-> 0]
    /\ reported = <<>>
    /\ sent = <<>>
    /\ received = <<>>
    /\ counted = <<>>
    /\ visited = {}
    /\ search_calls = [e \in DOMAIN fs |-> 0]
    /\ error_calls = [e \in DOMAIN fs |-> 0]
    /\ send_failed = [e \in DOMAIN fs |-> 0]

\* no thread of the pipeline and no monitor exists, no logger is called
NothingRuns ==
    /\ log_enabled = FALSE
    /\ NoLogging
    /\ PipelineIdle

\* everything but the call and what it returned
restVars ==
    <<envVars, mainVars, chanVars, aggVars, walkVars, monVars, histVars,
      callVars, cbVars, error_counts>>

(* ---------------------------------------------------------------------- *)
(* FileFilter called on its own (file_walker.rs:15-100)                    *)
(* ---------------------------------------------------------------------- *)

\* file sizes and size bounds run over 0..MaxSize, sizes one further
MaxSize == 3
SizeBounds == {None} \cup {Some(n) : n \in 0..MaxSize}
Sizes == 0..(MaxSize + 1)

\* a directory entry of a regular file whose metadata() succeeds or fails
FileEntry(path, size, meta_ok) ==
    [File(path, size, TRUE, <<>>) EXCEPT !.meta_ok = meta_ok]

\* should_process(entry) under two filters that differ in their size bounds
\* only; the exclusions are those of TheFilter
ShouldProcessCalls ==
    { [fn |-> "should_process",
       filter |-> NewFileFilter(b[1], b[2], TheFilter.excluded_dirs,
                                TheFilter.excluded_paths),
       filter2 |-> NewFileFilter(b[3], b[4], TheFilter.excluded_dirs,
                                 TheFilter.excluded_paths),
       entry |-> FileEntry(path, size, meta_ok)] :
         b \in SizeBounds \X SizeBounds \X SizeBounds \X SizeBounds,
         path \in {<<"r", "/", "a">>, <<"r", "/", "t", "/", "a">>},
         size \in Sizes, meta_ok \in BOOLEAN }

\* the entry is put to both filters
CallShouldProcess ==
    /\ call.fn = "should_process"
    /\ ~ret.done
    /\ ret' = [done |-> TRUE,
               size_ok |-> matches_size(call.filter, call.entry.size),
               accept |-> should_process(call.filter, call.entry),
               accept2 |-> should_process(call.filter2, call.entry)]
    /\ UNCHANGED <<call, restVars>>

\* paths: MaxDepth names at most, joined by '/' or by '\', no separator at
\* either end (the paths the walker hands to the filter)
MaxDepth == 3
Names == {<<"d">>, <<"f">>, <<"d", "f">>}
Separators == {"/", "\\"}

RECURSIVE PathsOfDepth(_)
PathsOfDepth(n) ==
    IF n = 1 THEN Names
    ELSE {p \o <<sep>> \o name :
             p \in PathsOfDepth(n - 1), sep \in Separators, name \in Names}

PathsUpTo(n) == UNION {PathsOfDepth(k) : k \in 1..n}

\* the configured exclusion lists (config exclude.paths, exclude.directories)
ExcludedPathSets ==
    {{}} \cup {{e} : e \in PathsUpTo(2)} \cup {{e1, e2} : e1 \in Names, e2 \in Names}
ExcludedDirSets == {{}, {<<"d">>}}

IsPathExcludedCalls ==
    { [fn |-> "is_path_excluded",
       filter |-> NewFileFilter(None, None, dirs, paths),
       path |-> path] :
         dirs \in ExcludedDirSets, paths \in ExcludedPathSets,
         path \in PathsUpTo(MaxDepth) }

CallIsPathExcluded ==
    /\ call.fn = "is_path_excluded"
    /\ ~ret.done
    /\ ret' = [done |-> TRUE, val |-> is_path_excluded(call.filter, call.path)]
    /\ UNCHANGED <<call, restVars>>

FilterInit ==
    /\ NothingRuns
    /\ call \in ShouldProcessCalls \cup IsPathExcludedCalls
    /\ ret = NoRet

FilterNext == CallShouldProcess \/ CallIsPathExcluded

FilterSpec == FilterInit /\ [][FilterNext]_vars

(* ---------------------------------------------------------------------- *)
(* The search engine called on its own (search.rs:18-117)                  *)
(* ---------------------------------------------------------------------- *)

\* files: MaxLines lines at most, drawn from FileLines
MaxLines == 3
FileLines ==
    { <<"a", "b">>, <<"x">>, <<"x", "a", "b">>, <<"a", "x", "a", "b">> }
Files == UNION {[1..n -> FileLines] : n \in 0..MaxLines}

\* config.search.context_lines: Config::validate admits 0..50
\* (config.rs:142), the model 0..MaxContext, more than a file has lines
MaxContext == 3

\* the patterns the files are searched for
SearchArgs ==
    { Arg(<<"a", "b">>, FALSE, FALSE),
      Arg(<<"a", ".">>, TRUE, FALSE),
      Arg(<<"x">>, FALSE, FALSE) }

SearchInFileCalls ==
    { [fn |-> "search_in_file", path |-> <<"r", "/", "a">>, lines |-> lines,
       matcher |-> get_matcher(from_input(a.pattern, a.regex, a.hex)),
       context_lines |-> c] :
         lines \in Files, a \in SearchArgs, c \in 0..MaxContext }

CallSearchInFile ==
    /\ call.fn = "search_in_file"
    /\ ~ret.done
    /\ ret' = [done |-> TRUE,
               results |-> search_in_file(call.path, call.lines, call.matcher,
                                          call.context_lines)]
    /\ UNCHANGED <<call, restVars>>

\* search_in_file calls get_context_lines with the index of a line of the file
GetContextLinesCalls ==
    { [fn |-> "get_context_lines", lines |-> lines, line_idx |-> i - 1,
       context_lines |-> c, before |-> b] :
         lines \in Files \ {<<>>}, i \in 1..MaxLines, c \in 0..MaxContext,
         b \in BOOLEAN }

CallGetContextLines ==
    /\ call.fn = "get_context_lines"
    /\ call.line_idx < Len(call.lines)
    /\ ~ret.done
    /\ ret' = [done |-> TRUE,
               range |-> get_context_range(call.lines, call.line_idx,
                                           call.context_lines, call.before),
               val |-> get_context_lines(call.lines, call.line_idx,
                                         call.context_lines, call.before)]
    /\ UNCHANGED <<call, restVars>>

\* strings of at most n characters of S
StringsUpTo(S, n) == UNION {[1..k -> S] : k \in 0..n}

\* text patterns and the lines they are looked for in
MaxPatLen == 3
TextInputs == StringsUpTo({"a", "b", "."}, MaxPatLen)
TextLines == StringsUpTo({"a", "b", "x", "."}, 3)

\* --hex arguments: 61, 6162, "61 62", 2e, c3a9, e9; an odd number of
\* digits; a character that is no hex digit
HexInputs ==
    { <<"6", "1">>, <<"6", "1", "6", "2">>, <<"6", "1", " ", "6", "2">>,
      <<"2", "e">>, <<"c", "3", "a", "9">>, <<"e", "9">>,
      <<"6">>, <<"6", "1", " ", "6">>, <<"6", "g">> }

\* lines of valid UTF-8: ASCII, U+00E9 (C3 A9), U+00C3 U+00A9 (C3 83 C2 A9)
HexLines ==
    { <<"a", "b">>, <<"x", "a", "b">>, <<"a", "x", "b">>, <<"a", ".", "b">>,
      <<"x">>, <<"C3", "A9">>, <<"x", "C3", "A9">>, <<"C3", "83", "C2", "A9">> }

MatchCalls ==
    { [fn |-> "match", input |-> i, is_regex |-> FALSE, is_hex |-> FALSE,
       line |-> l] : i \in TextInputs, l \in TextLines }
    \cup
    { [fn |-> "match", input |-> i, is_regex |-> FALSE, is_hex |-> TRUE,
       line |-> l] : i \in HexInputs, l \in HexLines }

\* from_input, then get_matcher and matcher.find(line) as search_in_file
\* calls it (search.rs:80)
CallMatch ==
    /\ call.fn = "match"
    /\ ~ret.done
    /\ LET pattern == from_input(call.input, call.is_regex, call.is_hex)
       IN  ret' = [done |-> TRUE,
                   pattern |-> pattern,
                   offset |-> IF pattern.tag = "Err" THEN 0
                              ELSE Find(get_matcher(pattern), call.line)]
    /\ UNCHANGED <<call, restVars>>

\* from_input under every combination of its two flags
FromInputCalls ==
    { [fn |-> "from_input", input |-> i, is_regex |-> r, is_hex |-> h] :
         i \in { <<"a", "b">>, <<"a", ".">>, <<"(">>, <<"6", "1">>,
                 <<"6", "1", " ", "6", "2">>, <<"6", "g">>, <<"6">> },
         r \in BOOLEAN, h \in BOOLEAN }

CallFromInput ==
    /\ call.fn = "from_input"
    /\ ~ret.done
    /\ ret' = [done |-> TRUE,
               pattern |-> from_input(call.input, call.is_regex, call.is_hex)]
    /\ UNCHANGED <<call, restVars>>

SearchInit ==
    /\ NothingRuns
    /\ call \in SearchInFileCalls \cup GetContextLinesCalls \cup MatchCalls
                \cup FromInputCalls
    /\ ret = NoRet

SearchNext ==
    CallSearchInFile \/ CallGetContextLines \/ CallMatch \/ CallFromInput

SearchSpec == SearchInit /\ [][SearchNext]_vars

TypeOK ==
    /\ main_pc \in {"start_monitor", "compile", "spawn", "log_params", "walk_start",
                    "walk", "drop_tx", "join", "set_total", "stop_monitor",
                    "finalize", "report", "done", "failed", "library"}
    /\ \A c \in Callers : c_pc[c] \in {"idle", "start_store", "start_spawn", "sleeping",
                                        "status_flag", "status_running"}
    /\ \A c \in Callers : lg_pc[c] \in {"idle", "lock", "read", "store", "file"}
    /\ err_lock \in {0} \cup Callers
    /\ agg_pc \in {"none", "recv", "process", "finished"}
    /\ \A w \in Workers : w_pc[w] \in {"idle", "callback", "sleeping", "search", "send", "ret", "ret_err"}

(* ---------------------------------------------------------------------- *)
(* What a run is expected to find, computed from the tree alone            *)
(* ---------------------------------------------------------------------- *)

\* the entries under the search path
RECURSIVE Under(_)
Under(S) ==
    LET more == S \cup UNION {fs[e].children : e \in S}
    IN  IF more = S THEN S ELSE Under(more)

ReachableEntries == Under({1})

\* the regular files the filter accepts
AcceptedFiles ==
    {e \in ReachableEntries : fs[e].kind = "file" /\ should_process(TheFilter, fs[e])}

\* the pattern of the command line, as the compiled matcher
TheMatcher == get_matcher(from_input(args.pattern, args.regex, args.hex))

\* the 1-based numbers of the lines of e that contain a match
MatchLines(e) ==
    IF fs[e].readable
    THEN {i \in 1..Len(fs[e].lines) : \E k \in 1..Len(fs[e].lines[i]) :
                                          MatchesAt(TheMatcher, fs[e].lines[i], k)}
    ELSE {}

RECURSIVE SumOver(_, _)
SumOver(S, f) ==
    IF S = {} THEN 0
    ELSE LET x == CHOOSE y \in S : TRUE IN f[x] + SumOver(S \ {x}, f)

ExpectedN == Cardinality(AcceptedFiles)
ExpectedM == Cardinality({e \in AcceptedFiles : MatchLines(e) # {}})
ExpectedK == SumOver(AcceptedFiles, [e \in AcceptedFiles |-> Cardinality(MatchLines(e))])

AllReadable == \A e \in AcceptedFiles : fs[e].readable

\* main is past line 275
AfterSetTotal == main_pc \in {"stop_monitor", "finalize", "report", "done"}

\* the elements of a sequence
Range(q) == {q[i] : i \in 1..Len(q)}

(* ---------------------------------------------------------------------- *)
(* Logger and ErrorLogger called on their own by threads sharing them      *)
(* (logging.rs:70-133, error_logging.rs:80-146)                            *)
(* ---------------------------------------------------------------------- *)

\* the calls the threads make to the loggers, all together
MaxLogCalls == 3

\* the calls made so far: those that returned and those in progress
LogCallsMade ==
    SumOver(Callers, [c \in Callers |-> lg_last[c].n])
       + Cardinality({c \in Callers : lg_pc[c] # "idle"})

LoggerOps == {"log_message", "log_file", "finalize"}

\* the lines one call writes: logging.rs:81, 99-104, 119-125
LinesOf(op) == IF op = "finalize" THEN 7 ELSE 1

\* logging.rs:72 without the test: every logger writes
LoggerWrites_Always(enabled) == TRUE

\* logging.rs:72, 90, 113: `if !self.enabled { return Ok(()) }`
LoggerWrites(enabled) == enabled

\* error_logging.rs:96 without the mutex
MutexFree_Always(lock) == TRUE

\* error_logging.rs:96, 127, 136: Mutex::lock returns once no thread holds it
MutexFree(lock) == lock = 0

\* error_logging.rs:126-132: the map holds an entry for a type once an error
\* of the type was counted (line 97, or_insert)
get_error_summary(counts) ==
    IF counts = 0 THEN [t \in {} |-> 0] ELSE [t \in {"FileRead"} |-> counts]

\* error_logging.rs:135-141: counts.values().sum()
get_total_errors(counts) ==
    SumOver(DOMAIN get_error_summary(counts), get_error_summary(counts))

\* error_logging.rs:144-146
has_errors(counts) == get_total_errors(counts) > 0

\* what a logger call leaves alone besides the loggers' own state
logRest ==
    <<fs, args, log_enabled, el_enabled, mainVars, chanVars, aggVars, walkVars,
      monVars, histVars, callVars, cbVars, pureVars>>

Returned(c, op, result) ==
    [NoLogCall EXCEPT !.op = op, !.result = result, !.n = lg_last[c].n + 1]

\* Logger::log_message, log_file, finalize (logging.rs:71-133): nothing when
\* disabled; otherwise the lines are written under the file's mutex and the
\* first failing writeln or the flush ends the call with its error
LoggerCall(c, op) ==
    /\ main_pc = "library"
    /\ lg_pc[c] = "idle"
    /\ LogCallsMade < MaxLogCalls
    /\ IF LoggerWrites(log_enabled)
       THEN \E k \in 0..LinesOf(op), flushed \in BOOLEAN :
               /\ log_lines' = log_lines + k
               /\ lg_last' = [lg_last EXCEPT ![c] =
                     Returned(c, op, IF k = LinesOf(op) /\ flushed THEN "Ok" ELSE "Err")]
       ELSE /\ lg_last' = [lg_last EXCEPT ![c] = Returned(c, op, "Ok")]
            /\ UNCHANGED log_lines
    /\ UNCHANGED <<err_lock, lg_pc, lg_tmp, el_started, el_returned, error_counts>>
    /\ UNCHANGED logRest

\* log_error, error_logging.rs:80-92: a disabled logger returns Ok at once
LogErrorCall(c) ==
    /\ main_pc = "library"
    /\ lg_pc[c] = "idle"
    /\ LogCallsMade < MaxLogCalls
    /\ IF el_enabled
       THEN /\ lg_pc' = [lg_pc EXCEPT ![c] = "lock"]
            /\ el_started' = el_started + 1
            /\ UNCHANGED lg_last
       ELSE /\ lg_last' = [lg_last EXCEPT ![c] = Returned(c, "log_error", "Ok")]
            /\ UNCHANGED <<lg_pc, el_started>>
    /\ UNCHANGED <<err_lock, log_lines, lg_tmp, el_returned, error_counts>>
    /\ UNCHANGED logRest

\* log_error, error_logging.rs:96: self.error_counts.lock()
LogErrorLock(c) ==
    /\ lg_pc[c] = "lock"
    /\ MutexFree(err_lock)
    /\ err_lock' = c
    /\ lg_pc' = [lg_pc EXCEPT ![c] = "read"]
    /\ UNCHANGED <<log_lines, lg_tmp, lg_last, el_started, el_returned, error_counts>>
    /\ UNCHANGED logRest

\* log_error, error_logging.rs:97: the read of `+= 1`
LogErrorRead(c) ==
    /\ lg_pc[c] = "read"
    /\ lg_tmp' = [lg_tmp EXCEPT ![c] = error_counts]
    /\ lg_pc' = [lg_pc EXCEPT ![c] = "store"]
    /\ UNCHANGED <<err_lock, log_lines, lg_last, el_started, el_returned, error_counts>>
    /\ UNCHANGED logRest

\* log_error, error_logging.rs:97-98: the write of `+= 1`; the guard is
\* dropped at the end of the block
LogErrorStore(c) ==
    /\ lg_pc[c] = "store"
    /\ error_counts' = log_error(lg_tmp[c])
    /\ err_lock' = 0
    /\ lg_pc' = [lg_pc EXCEPT ![c] = "file"]
    /\ UNCHANGED <<log_lines, lg_tmp, lg_last, el_started, el_returned>>
    /\ UNCHANGED logRest

\* log_error, error_logging.rs:100-122: the entry is written to the error
\* file; a failed write returns its error
LogErrorWrite(c) ==
    /\ lg_pc[c] = "file"
    /\ \E ok \in BOOLEAN :
          lg_last' = [lg_last EXCEPT ![c] =
                         Returned(c, "log_error", IF ok THEN "Ok" ELSE "Err")]
    /\ el_returned' = el_returned + 1
    /\ lg_pc' = [lg_pc EXCEPT ![c] = "idle"]
    /\ UNCHANGED <<err_lock, log_lines, lg_tmp, el_started, error_counts>>
    /\ UNCHANGED logRest

\* get_total_errors and has_errors, error_logging.rs:135-146, under the mutex
GetTotalErrors(c) ==
    /\ main_pc = "library"
    /\ lg_pc[c] = "idle"
    /\ LogCallsMade < MaxLogCalls
    /\ MutexFree(err_lock)
    /\ lg_last' = [lg_last EXCEPT ![c] =
          [Returned(c, "get_total_errors", "Ok")
              EXCEPT !.total = get_total_errors(error_counts),
                     !.has = has_errors(error_counts)]]
    /\ UNCHANGED <<err_lock, log_lines, lg_pc, lg_tmp, el_started, el_returned, error_counts>>
    /\ UNCHANGED logRest

LogStep(c) ==
    \/ \E op \in LoggerOps : LoggerCall(c, op)
    \/ LogErrorCall(c)
    \/ LogErrorLock(c)
    \/ LogErrorRead(c)
    \/ LogErrorStore(c)
    \/ LogErrorWrite(c)
    \/ GetTotalErrors(c)

\* Logger::new(enabled) and ErrorLogger::new(enabled) with either flag
LogInit ==
    /\ log_enabled \in BOOLEAN
    /\ el_enabled \in BOOLEAN
    /\ err_lock = 0
    /\ log_lines = 0
    /\ lg_pc = [c \in Callers |-> "idle"]
    /\ lg_tmp = [c \in Callers |-> 0]
    /\ lg_last = [c \in Callers |-> NoLogCall]
    /\ el_started = 0
    /\ el_returned = 0
    /\ PipelineIdle
    /\ call = NoCall
    /\ ret = NoRet

LogNext == \E c \in Callers : LogStep(c)

LogSpec == LogInit /\ [][LogNext]_vars

(* ---------------------------------------------------------------------- *)
(* Claims                                                                  *)
(* ---------------------------------------------------------------------- *)

\* C1: when all N accepted files are readable, M of them contain a match and
\* their matching lines number K, then after the walk has returned, the sender
\* is dropped and the aggregator is joined without a display error, the summary
\* holds total_files = N, matched_files = M and total_matches = K.
C1_CountsAfterRun ==
    (AfterSetTotal /\ AllReadable /\ agg_result # "Err(print)")
        => summary = [total_files |-> ExpectedN,
                      matched_files |-> ExpectedM,
                      total_matches |-> ExpectedK]

\* the counts of C1 when the aggregator closure returned Ok(())
C1_CountsWhenAggregatorOk ==
    (AfterSetTotal /\ AllReadable /\ agg_result = "Ok")
        => summary = [total_files |-> ExpectedN,
                      matched_files |-> ExpectedM,
                      total_matches |-> ExpectedK]

\* C2: under fair scheduling every run terminates (main returns), and once the
\* walk has started the join of the aggregator returns, whatever the number
\* of results; when it returns every worker has finished, both senders are
\* dropped and the aggregator has exited; an aggregator that saw the closed
\* channel has drained it.
C2_RunTerminates ==
    /\ <>Exited
    /\ (main_pc = "walk") ~> (main_pc = "set_total")
    /\ [](main_pc = "set_total" =>
            /\ pending = {}
            /\ \A w \in Workers : w_pc[w] = "idle"
            /\ ~tx_alive /\ ~tx_clone_alive
            /\ agg_pc = "finished")
    /\ [](agg_result = "Ok" => (chan = <<>> /\ received = sent))

\* a run with more results than the channel holds has ended normally
C2_Witness ==
    /\ main_pc = "done"
    /\ main_result = "Ok"
    /\ agg_result = "Ok"
    /\ Len(sent) > ChanCap
    /\ Len(received) = Len(sent)

NoDup(q) == \A i, j \in 1..Len(q) : i # j => q[i] # q[j]

IsPrefix(p, q) == Len(p) <= Len(q) /\ SubSeq(q, 1, Len(p)) = p

\* C3: every result whose send succeeded is received exactly once: nothing is
\* received twice or out of the order of the sends, while the receiver lives
\* the sent results are exactly the received ones followed by the buffered
\* ones, and an aggregator that received until the channel closed has
\* received every sent result.
C3_ExactlyOnce ==
    /\ NoDup(received)
    /\ IsPrefix(received, sent)
    /\ rx_alive => sent = received \o chan
    /\ agg_result = "Ok" => received = sent

\* the aggregator has received more results than the channel holds, up to
\* the closed channel
C3_Witness ==
    /\ agg_result = "Ok"
    /\ Len(received) > ChanCap

\* C4: after any sequence of counted results total_matches is their number
\* and matched_files the number of distinct paths among them, which is the
\* size of the path set.
C4_AggregatorCounts ==
    /\ summary.total_matches = Len(counted)
    /\ summary.matched_files = Cardinality({r.path : r \in Range(counted)})
    /\ summary.matched_files = Cardinality(matched_files)

\* two results of one file have been counted
C4_Witness ==
    /\ agg_pc = "recv"
    /\ \E i, j \in 1..Len(counted) : i < j /\ counted[i].path = counted[j].path
    /\ summary.matched_files < summary.total_matches

\* C5: the channel never buffers more than its capacity, and a worker whose
\* send finds it full (receiver alive) does not move in any step.
C5_BoundedChannel ==
    /\ [](Len(chan) <= ChanCap)
    /\ [][\A w \in Workers :
            (w_pc[w] = "send" /\ rx_alive /\ Len(chan) = ChanCap)
                => (w_pc'[w] = "send" /\ w_results'[w] = w_results[w])]_vars

\* a worker is blocked in send on a full channel
C5_Witness ==
    \E w \in Workers : w_pc[w] = "send" /\ rx_alive /\ Len(chan) = ChanCap

\* C6: the results of one file are received in strictly ascending
\* line-number order.
C6_AscendingPerFile ==
    \A i, j \in 1..Len(received) :
        (i < j /\ received[i].path = received[j].path)
            => received[i].line_number < received[j].line_number

\* two results of one file were received with a result of another file
\* between them
C6_Witness ==
    \E i, j, k \in 1..Len(received) :
        /\ i < j /\ j < k
        /\ received[i].path = received[k].path
        /\ received[j].path # received[i].path

\* the accepted files read_to_string cannot read
FailedFiles == {e \in AcceptedFiles : ~fs[e].readable}

\* the sent and the received results of entry e, by position
SentOf(e) == {i \in 1..Len(sent) : sent[i].path = fs[e].path}

ReceivedOf(e) == {i \in 1..Len(received) : received[i].path = fs[e].path}

\* C7: a file whose search_in_file fails has no result sent, is searched once
\* and has exactly one error recorded; the error count of the logger is the
\* number of failed files searched; once the walk has returned every accepted
\* file has been searched once and every result of every readable file has
\* been sent unless a send of that file failed; an aggregator that ran to the
\* closed channel has received them all.
C7_ReadFailureIsolated ==
    /\ \A f \in FailedFiles :
          /\ SentOf(f) = {}
          /\ search_calls[f] <= 1
          /\ error_calls[f] <= 1
          /\ error_calls[f] = search_calls[f]
    /\ \A e \in Entries \ FailedFiles : error_calls[e] = 0
    /\ error_counts = SumOver(Entries, error_calls)
    /\ scan_result # <<>> =>
          /\ \A g \in AcceptedFiles : search_calls[g] = 1
          /\ \A f \in FailedFiles : error_calls[f] = 1
          /\ \A g \in AcceptedFiles \ FailedFiles :
                send_failed[g] = 0 => Cardinality(SentOf(g)) = Cardinality(MatchLines(g))
    /\ (scan_result # <<>> /\ agg_result = "Ok") =>
          \A g \in AcceptedFiles \ FailedFiles :
              Cardinality(ReceivedOf(g)) = Cardinality(MatchLines(g))

\* a run over a tree with an unreadable file has ended: the error is recorded
\* and the match of the readable file was received
C7_Witness ==
    /\ main_pc = "done"
    /\ agg_result = "Ok"
    /\ \E f \in FailedFiles : error_calls[f] = 1
    /\ error_counts = 1
    /\ Len(received) = 1

\* C8: a failed send happens at most once per file and is silent: the worker
\* leaves the send loop with nothing left to send, nothing is sent and no
\* error is recorded; the walk still visits every entry and the callback
\* returns success for every accepted file.
C8_SendFailureSilent ==
    /\ [](\A e \in Entries : send_failed[e] <= 1)
    /\ [](scan_result # <<>> =>
            /\ visited = ReachableEntries
            /\ scan_result = <<ExpectedN, ExpectedN>>)
    /\ [][\A w \in Workers :
            (w_pc[w] = "send" /\ ~rx_alive /\ w_pc'[w] # w_pc[w])
                => /\ w_pc'[w] = "ret"
                   /\ w_results'[w] = <<>>
                   /\ sent' = sent
                   /\ error_counts' = error_counts
                   /\ main_result' = main_result]_vars

\* the walk has returned after a send of a file failed with two or more of
\* its results unsent
C8_Witness ==
    /\ scan_result # <<>>
    /\ visited = ReachableEntries
    /\ \E e \in AcceptedFiles :
          /\ send_failed[e] = 1
          /\ Cardinality(SentOf(e)) + 2 <= Cardinality(MatchLines(e))

\* C9: a failing logging call never makes the core fail: neither main nor
\* the aggregator returns the logging error.
C9_LogFailureNeverFails ==
    /\ main_result # "Err(log)"
    /\ agg_result # "Err(log)"

\* the command line holds a regex that does not compile or a hex string that
\* does not decode
PatternInvalid ==
    \/ args.regex /\ ~RegexCompiles(args.pattern)
    \/ ~args.regex /\ args.hex /\ ~HexDecode(StripSpaces(args.pattern)).ok

\* C10: when the pattern is invalid the run fails with the pattern error
\* before anything of the pipeline exists: no channel, no aggregator, no
\* entry visited, no file searched.
C10_CompileErrorBeforePipeline ==
    PatternInvalid =>
        /\ main_pc \in {"start_monitor", "compile", "failed"}
        /\ main_pc = "failed" => main_result \in {"Err(pattern)", "Err(log)"}
        /\ (main_pc = "failed" /\ mon_pc # [l \in Loops |-> "none"] /\ ~log_enabled)
              => main_result = "Err(pattern)"
        /\ agg_pc = "none"
        /\ ~tx_alive /\ ~tx_clone_alive /\ ~rx_alive /\ chan = <<>>
        /\ visited = {}
        /\ \A e \in Entries : search_calls[e] = 0
        /\ matcher = <<>>

\* main has returned the pattern error
C10_Witness ==
    /\ main_result = "Err(pattern)"
    /\ main_pc = "failed"
    /\ agg_pc = "none"

\* C11: the monitor is started only after the pattern has compiled: in a run
\* whose pattern does not compile no sampling loop has been spawned.
C11_MonitorAfterCompile ==
    PatternInvalid => SpawnedLoops = {}

\* the search path does not exist: the walker yields one error for it
RootMissing == fs[1].kind = "err"

\* C12: when the root path does not exist the run is fatal: main does not
\* return Ok and no summary of counts is printed.
C12_MissingRootIsFatal ==
    RootMissing => (main_result # "Ok" /\ reported = <<>>)

\* main is past the return of scan_directory, past drop(tx), past the join,
\* past cpu_monitor.stop()
PastWalk == main_pc \in {"drop_tx", "join", "set_total", "stop_monitor", "finalize", "report", "done"}

PastDrop == main_pc \in {"join", "set_total", "stop_monitor", "finalize", "report", "done"}

PastJoin == main_pc \in {"set_total", "stop_monitor", "finalize", "report", "done"}

PastStop == main_pc \in {"finalize", "report", "done"}

\* the walk has returned, main's sender is dropped, the aggregator has
\* terminated and the monitor is stopped
ShutDown ==
    /\ scan_result # <<>> /\ pending = {} /\ \A w \in Workers : w_pc[w] = "idle"
    /\ ~tx_alive /\ ~tx_clone_alive
    /\ agg_pc = "finished"
    /\ ~is_running /\ stop_called

\* C13: the shutdown events happen in the order: the walk returns, main's
\* sender is dropped, the aggregator has terminated when the join returns, the
\* monitor is stopped, the counts are reported; the summary printed is the one
\* the terminated aggregator left, with total_files set.
C13_ShutdownOrder ==
    /\ [](PastWalk => (scan_result # <<>> /\ pending = {} /\ ~tx_clone_alive))
    /\ [](PastDrop => ~tx_alive)
    /\ [](PastJoin => agg_pc = "finished")
    /\ [](PastStop => (~is_running /\ stop_called))
    /\ [](reported # <<>> => ShutDown)
    /\ [][(main_pc = "walk" /\ main_pc' # "walk") => (main_pc' = "drop_tx" /\ tx_alive')]_vars
    /\ [][(main_pc = "drop_tx" /\ main_pc' # "drop_tx") =>
            (main_pc' = "join" /\ ~tx_alive' /\ is_running' /\ reported' = <<>>)]_vars
    /\ [][(main_pc = "join" /\ main_pc' # "join") =>
            (main_pc' = "set_total" /\ agg_pc = "finished" /\ is_running')]_vars
    /\ [][(is_running /\ ~is_running' /\ scan_result # <<>>) =>
            (main_pc = "stop_monitor" /\ agg_pc = "finished" /\ reported' = <<>>)]_vars
    /\ [][reported' # reported =>
            (/\ ShutDown
             /\ reported' = <<summary>>
             /\ summary.matched_files = Cardinality({r.path : r \in Range(counted)})
             /\ summary.total_matches = Len(counted)
             /\ summary.total_files = scan_result[1])]_vars

\* a run that received results has shut down and printed its summary
C13_Witness ==
    /\ main_pc = "done"
    /\ reported # <<>>
    /\ Len(received) > 1
    /\ agg_result = "Ok"

\* C14 as stated: every field of the summary is written only by the
\* aggregator thread, never by main.
C14_OnlyAggregatorWrites ==
    [][summary' # summary => (agg_pc = "process" /\ main_pc' = main_pc)]_vars

\* C14: matched_files and total_matches are written only by the aggregator
\* thread; main writes total_files alone, once the aggregator has been
\* joined, and prints the summary only after that.
C14_AggregatorWritesMatches ==
    /\ [][(summary'.matched_files # summary.matched_files
            \/ summary'.total_matches # summary.total_matches)
               => (agg_pc = "process" /\ main_pc' = main_pc)]_vars
    /\ [][summary'.total_files # summary.total_files
               => (main_pc = "set_total" /\ agg_pc = "finished" /\ agg_pc' = "finished")]_vars
    /\ [][reported' # reported
               => (agg_pc = "finished" /\ reported' = Append(reported, summary))]_vars

\* main has written total_files into a summary the aggregator counted
\* matches in
C14_Witness ==
    /\ main_pc = "stop_monitor"
    /\ summary.total_files > 0
    /\ summary.total_matches > 0
    /\ summary.matched_files > 0

\* the callbacks that have returned Ok, those that returned Err, and the
\* workers whose callback returned Ok and is not yet counted
CallbackErrs == SumOver(Entries, cb_errs)

CallbackOks == SumOver(Entries, cb_calls) - CallbackErrs

Returning == {w \in Workers : w_pc[w] = "ret"}

\* C15: in scan_directory the processed-count never exceeds the seen-count;
\* the seen-count is the number of accepted files visited, each counted before
\* its callback is invoked; the processed-count is the number of callbacks that
\* returned Ok and were counted; the pair returned is (accepted files,
\* accepted files whose callback returned Ok).
C15_SeenAndProcessed ==
    /\ processed_files <= total_files
    /\ total_files = Cardinality(visited \cap AcceptedFiles)
    /\ SumOver(Entries, cb_calls) <= total_files
    /\ \A e \in Entries : cb_calls[e] > 0 => e \in visited \cap AcceptedFiles
    /\ processed_files = CallbackOks - Cardinality(Returning)
    /\ scan_result # <<>> =>
          /\ scan_result = <<total_files, processed_files>>
          /\ scan_result = <<ExpectedN, ExpectedN - CallbackErrs>>

\* scan_directory has returned with a callback that failed for one file and
\* succeeded for another
C15_Witness ==
    /\ scan_result # <<>>
    /\ scan_result[2] > 0
    /\ scan_result[2] < scan_result[1]

\* the entries the visitor skips: walk errors, non-files, filtered files
Rejected == {e \in Entries : fs[e].kind # "err" /\ e \notin AcceptedFiles}

\* C16: visiting an entry that is not a regular file, or that the filter
\* rejects, changes neither counter and hands nothing to the callback, which
\* is never invoked for such an entry.
C16_RejectedEntryUntouched ==
    /\ [](\A e \in Rejected :
              cb_calls[e] = 0 /\ \A w \in Workers : w_entry[w] # e)
    /\ [][\A e \in Rejected :
              (e \notin visited /\ e \in visited')
                 => /\ total_files' = total_files
                    /\ processed_files' = processed_files
                    /\ w_pc' = w_pc /\ w_entry' = w_entry
                    /\ cb_calls' = cb_calls]_vars
    /\ [](scan_result # <<>> =>
              scan_result[1] = Cardinality(visited) - Cardinality(visited \cap Rejected)
                                 - Cardinality({e \in visited : fs[e].kind = "err"}))

\* a walk that visited a directory, a file in an excluded directory and a
\* file over the size bound has returned, having accepted another file
C16_Witness ==
    /\ scan_result # <<>>
    /\ scan_result[1] > 0
    /\ \E d \in visited : fs[d].kind = "dir"
    /\ \E e \in visited \cap Rejected :
          fs[e].kind = "file" /\ is_path_excluded(TheFilter, fs[e].path)
    /\ \E e \in visited \cap Rejected :
          fs[e].kind = "file" /\ ~is_path_excluded(TheFilter, fs[e].path)

\* C17: the callback is invoked exactly once for each accepted file; when it
\* returns Err the worker goes on to the next entry with the processed-count
\* unchanged and the file is not handed to the callback again; the walk
\* still visits every entry.
C17_CallbackErrorCaught ==
    /\ [](\A e \in Entries : cb_calls[e] <= 1 /\ cb_errs[e] <= cb_calls[e])
    /\ [][\A w \in Workers :
              (w_pc[w] = "ret_err" /\ w_pc'[w] # "ret_err")
                 => /\ w_pc'[w] = "idle"
                    /\ processed_files' = processed_files
                    /\ total_files' = total_files
                    /\ cb_calls' = cb_calls
                    /\ pending' = pending]_vars
    /\ [](scan_result # <<>> =>
              /\ \A e \in AcceptedFiles : cb_calls[e] = 1
              /\ visited = ReachableEntries
              /\ processed_files = Cardinality({e \in AcceptedFiles : cb_errs[e] = 0}))

\* the walk has returned after the callback of the first accepted file
\* failed and a later one succeeded
C17_Witness ==
    /\ scan_result # <<>>
    /\ \E e \in AcceptedFiles : cb_errs[e] = 1
    /\ \E e \in AcceptedFiles : cb_calls[e] = 1 /\ cb_errs[e] = 0
    /\ visited = ReachableEntries

\* the entries for which the walker yields an error
ErrEntries == {e \in Entries : fs[e].kind = "err"}

\* C18: a traversal error for an entry changes no counter and invokes no
\* callback, and the walk goes on: every other reachable entry is visited
\* before scan_directory returns.
C18_TraversalErrorSkipped ==
    /\ [](\A e \in ErrEntries : cb_calls[e] = 0 /\ \A w \in Workers : w_entry[w] # e)
    /\ [][\A e \in ErrEntries :
              (e \notin visited /\ e \in visited')
                 => /\ total_files' = total_files
                    /\ processed_files' = processed_files
                    /\ cb_calls' = cb_calls
                    /\ w_pc' = w_pc
                    /\ pending' = pending \ {e}]_vars
    /\ [](scan_result # <<>> => ReachableEntries \ ErrEntries \subseteq visited)

\* a walk that met a traversal error before its last entry has returned
\* with files counted
C18_Witness ==
    /\ scan_result # <<>>
    /\ \E e \in visited \cap ErrEntries : e # 1
    /\ scan_result[1] > 1
    /\ visited = ReachableEntries

\* C19: as long as stop() has not been called, start() calls on one monitor,
\* sequential or concurrent, have spawned at most one sampling loop.
C19_OneLoopPerStart ==
    ~stop_called => Cardinality(SpawnedLoops) <= 1

\* sampling loop l stores the flag of its sample (monitoring.rs:76-77)
FlagStored(l) == mon_pc[l] = "store_flag" /\ mon_pc'[l] = "load"

\* C20: each store of the sampling loop leaves should_throttle() true iff
\* the sample is above the threshold, and nothing else changes it; with one
\* loop between two samples the flag and the stored usage are those of its
\* last sample; so
\* apply_throttle sleeps only when the last stored sample was above the
\* threshold and returns at once when it was not.
C20_FlagFollowsSample ==
    /\ [][\A l \in Loops :
              FlagStored(l) => should_throttle' = AboveThreshold(mon_sample[l])]_vars
    /\ [][should_throttle' # should_throttle => \E l \in Loops : FlagStored(l)]_vars
    /\ []((Cardinality(SpawnedLoops) = 1
             /\ \A l \in SpawnedLoops : mon_pc[l] \in {"load", "exited"})
            => \A l \in SpawnedLoops :
                  /\ should_throttle = AboveThreshold(mon_sample[l])
                  /\ current_cpu_usage = to_stored(mon_sample[l]))
    /\ [][\A c \in Callers :
              (c_pc[c] = "idle" /\ c_pc'[c] = "sleeping") => should_throttle]_vars
    /\ [][\A c \in Callers :
              (c_pc[c] = "idle" /\ ~should_throttle) => c_pc'[c] # "sleeping"]_vars

\* after a sample above the threshold made a caller sleep, the one loop has
\* stored a sample below it: the flag is down and the other caller is not
\* made to sleep
C20_Witness ==
    /\ SpawnedLoops = {1}
    /\ mon_pc[1] = "load"
    /\ ~AboveThreshold(mon_sample[1])
    /\ mon_sample[1] > 0
    /\ ~should_throttle
    /\ \E c \in Callers : c_pc[c] = "sleeping"

\* C21: apply_throttle() sleeps only if the throttle flag is true when it is
\* read and returns at once otherwise; the sleep is one bounded delay: a
\* sleeping caller can always wake, whatever the flag is then, and wakes into
\* the return, never into a second sleep or a wait for the flag to clear;
\* apply_throttle changes nothing of the monitor.
C21_SleepsOnce ==
    /\ [][\A c \in Callers :
              (c_pc[c] = "idle" /\ c_pc'[c] = "sleeping") => should_throttle]_vars
    /\ [][\A c \in Callers :
              (c_pc[c] = "idle" /\ ~should_throttle) => c_pc'[c] # "sleeping"]_vars
    /\ [](\A c \in Callers :
              c_pc[c] = "sleeping" => ENABLED (CallWake(c) /\ c_pc'[c] = "idle"))
    /\ [][\A c \in Callers :
              c_pc[c] = "sleeping" => c_pc'[c] \in {"sleeping", "idle"}]_vars
    /\ [][\A c \in Callers :
              (c_pc[c] = "sleeping" /\ c_pc'[c] = "idle") => UNCHANGED monVars]_vars

\* a caller sleeps in apply_throttle while the flag is set and will stay set:
\* the monitor was stopped and its loop has exited
C21_Witness ==
    /\ \E c \in Callers : c_pc[c] = "sleeping"
    /\ should_throttle
    /\ stop_called
    /\ ~is_running
    /\ SpawnedLoops # {}
    /\ \A l \in SpawnedLoops : mon_pc[l] = "exited"

\* no sampling loop is alive
LoopsExited == \A l \in Loops : mon_pc[l] \in {"none", "exited"}

\* a step that writes the stored CPU usage or the throttle flag
MonWrite ==
    current_cpu_usage' # current_cpu_usage \/ should_throttle' # should_throttle

\* C22: if the running flag stays cleared from some point on (stop() was
\* called and no start() follows), every sampling loop eventually exits; an
\* exited loop stays exited, and the CPU usage and the throttle flag are
\* written only by a step of a loop that has not exited; stop() returns in
\* the step that clears the flag, whatever the loops are doing, and leaves
\* them where they are.
C22_LoopExitsAfterStop ==
    /\ (<>[](~is_running)) => <>[]LoopsExited
    /\ [][\A l \in Loops : mon_pc[l] = "exited" => mon_pc'[l] = "exited"]_vars
    /\ [][MonWrite => \E l \in Loops :
                          /\ mon_pc[l] \in {"store_usage", "store_flag"}
                          /\ mon_pc'[l] # mon_pc[l]]_vars
    /\ [](\A c \in Callers : c_pc[c] = "idle" => ENABLED CallStop(c))
    /\ [][(is_running /\ ~is_running') => (mon_pc' = mon_pc /\ c_pc' = c_pc)]_vars

\* a loop that sampled has exited after stop(), the flag it last stored is
\* still set
C22_Witness ==
    /\ stop_called
    /\ ~is_running
    /\ SpawnedLoops = {1}
    /\ mon_pc[1] = "exited"
    /\ AboveThreshold(mon_sample[1])
    /\ should_throttle

\* the sizes a filter's bounds admit
SizeInterval(filter) ==
    {n \in Sizes : /\ (filter.min_size.some => n >= filter.min_size.val)
                   /\ (filter.max_size.some => n <= filter.max_size.val)}

ShouldProcessReturned == ret.done /\ call.fn = "should_process"

\* C23: for an entry and two filters with the same exclusions, the size
\* interval of the second containing that of the first, an entry the first
\* filter accepts is accepted by the second.
C23_WiderFilterAcceptsMore ==
    (/\ ShouldProcessReturned
     /\ SizeInterval(call.filter) \subseteq SizeInterval(call.filter2)
     /\ ret.accept)
        => ret.accept2

\* a file of size 2 accepted under [1, 2] and under the wider (none, 3]
C23_Witness ==
    /\ ShouldProcessReturned
    /\ call.filter.min_size = Some(1) /\ call.filter.max_size = Some(2)
    /\ call.filter2.min_size = None /\ call.filter2.max_size = Some(3)
    /\ call.entry.size = 2
    /\ call.entry.meta_ok
    /\ ret.accept /\ ret.accept2

\* C24: matches_size(s) is true iff s is at least the lower bound, if there
\* is one, and at most the upper bound, if there is one, both ends included;
\* should_process rejects a file whose metadata gives a size outside.
C24_SizeInterval ==
    ShouldProcessReturned
        => /\ ret.size_ok = (call.entry.size \in SizeInterval(call.filter))
           /\ (call.entry.meta_ok /\ call.entry.size \notin SizeInterval(call.filter))
                 => ~ret.accept

\* a size equal to the upper bound passes, under bounds that shut sizes out
\* on both sides
C24_Witness ==
    /\ ShouldProcessReturned
    /\ call.filter.min_size = Some(1) /\ call.filter.max_size = Some(3)
    /\ call.entry.size = 3
    /\ call.entry.meta_ok
    /\ ~is_path_excluded(call.filter, call.entry.path)
    /\ ret.size_ok /\ ret.accept

IsPathExcludedReturned == ret.done /\ call.fn = "is_path_excluded"

\* a path or an excluded-path string written with one separator throughout
ToSlash(s) == Replace(s, "\\", "/")
ToBackslash(s) == Replace(s, "/", "\\")
Rewritings(s) == {ToSlash(s), ToBackslash(s)}

\* C25: with excluded-path strings only, is_path_excluded gives the verdict
\* it gave for the path and the excluded strings as written also when the
\* path is written with '/' or with '\' throughout and the excluded strings
\* are written with '/' or with '\' throughout.
C25_SeparatorIndependent ==
    (IsPathExcludedReturned /\ call.filter.excluded_dirs = {})
        => \A path \in Rewritings(call.path), to \in {"/", "\\"} :
              LET from == IF to = "/" THEN "\\" ELSE "/"
                  paths == {Replace(e, from, to) : e \in call.filter.excluded_paths}
              IN  is_path_excluded(NewFileFilter(None, None, {}, paths), path) = ret.val

\* excluding "d/f" rejects the path f\d\f
C25_Witness ==
    /\ IsPathExcludedReturned
    /\ call.filter.excluded_dirs = {}
    /\ call.filter.excluded_paths = {<<"d", "/", "f">>}
    /\ call.path = <<"f", "\\", "d", "\\", "f">>
    /\ ret.val

\* t is s from some position on
IsSuffix(t, s) == \E k \in 0..Len(s) : SubSeq(s, k + 1, Len(s)) = t

\* C26: is_path_excluded(p) is true iff for some excluded-path string e the
\* normalized p equals the normalized e, or ends with it, or the final
\* component of p equals e, or some component of p is a configured excluded
\* directory name.
C26_ExclusionRule ==
    IsPathExcludedReturned
        => ret.val =
             (\/ \E e \in call.filter.excluded_paths :
                    \/ ToSlash(call.path) = ToSlash(e)
                    \/ IsSuffix(ToSlash(e), ToSlash(call.path))
                    \/ Components(call.path)[Len(Components(call.path))] = e
              \/ \E name \in call.filter.excluded_dirs :
                    \E i \in DOMAIN Components(call.path) :
                        Components(call.path)[i] = name)

\* the path df/d/f is excluded for ending with the excluded path d\f alone
C26_Witness ==
    /\ IsPathExcludedReturned
    /\ call.filter.excluded_dirs = {}
    /\ call.filter.excluded_paths = {<<"d", "\\", "f">>}
    /\ call.path = <<"d", "f", "/", "d", "/", "f">>
    /\ ret.val

SearchReturned == ret.done /\ call.fn = "search_in_file"

\* the 1-based numbers of the lines in which the matcher matches somewhere
LinesWithMatch(lines, m) ==
    {n \in 1..Len(lines) : \E k \in 1..(Len(lines[n]) + 1) : MatchesAt(m, lines[n], k)}

\* C27: search_in_file returns one result for each line with a match and
\* none for the other lines, in the order of the lines; each result carries
\* its file, the 1-based number of its line, the line, and as matched_text
\* the text of the leftmost match in the line.
C27_OneResultPerMatchingLine ==
    SearchReturned
        => LET R == ret.results
               M == LinesWithMatch(call.lines, call.matcher)
           IN  /\ Len(R) = Cardinality(M)
               /\ \A i \in 1..Len(R) :
                     /\ R[i].line_number \in M
                     /\ \A j \in 1..(i - 1) : R[j].line_number < R[i].line_number
                     /\ R[i].path = call.path
                     /\ R[i].line = call.lines[R[i].line_number]
                     /\ \E k \in 1..(Len(R[i].line) + 1) :
                           /\ MatchesAt(call.matcher, R[i].line, k)
                           /\ \A k2 \in 1..(k - 1) : ~MatchesAt(call.matcher, R[i].line, k2)
                           /\ R[i].matched_text
                                = SubSeq(R[i].line, k, k + Len(call.matcher) - 1)

\* a file whose second line has no match: results for lines 1 and 3, the
\* third line matching twice and reported once with its first match
C27_Witness ==
    /\ SearchReturned
    /\ call.lines = << <<"a", "b">>, <<"x">>, <<"a", "x", "a", "b">> >>
    /\ call.matcher = get_matcher(from_input(<<"a", ".">>, TRUE, FALSE))
    /\ Len(ret.results) = 2
    /\ ret.results[1].line_number = 1
    /\ ret.results[2].line_number = 3
    /\ ret.results[2].matched_text = <<"a", "x">>

\* the min(C, L-1) lines ending at line L-1, and the min(C, n-L) lines
\* starting at line L+1
ExpectedBefore(lines, L, C) ==
    [i \in 1..Min(C, L - 1) |-> lines[L - Min(C, L - 1) + i - 1]]
ExpectedAfter(lines, L, C) ==
    [i \in 1..Min(C, Len(lines) - L) |-> lines[L + i]]

\* C28: for a match on line L of a file of n lines and a context setting C,
\* context_before is the min(C, L-1) lines ending at line L-1 and
\* context_after the min(C, n-L) lines starting at line L+1, in file order;
\* the slices get_context_lines takes lie within the file.
C28_ContextClamped ==
    /\ (ret.done /\ call.fn = "get_context_lines")
          => /\ 0 <= ret.range.start
             /\ ret.range.start <= ret.range.end
             /\ ret.range.end <= Len(call.lines)
             /\ ret.val = IF call.before
                          THEN ExpectedBefore(call.lines, call.line_idx + 1,
                                              call.context_lines)
                          ELSE ExpectedAfter(call.lines, call.line_idx + 1,
                                             call.context_lines)
    /\ SearchReturned
          => \A i \in 1..Len(ret.results) :
                LET r == ret.results[i]
                IN  /\ r.context_before
                         = ExpectedBefore(call.lines, r.line_number, call.context_lines)
                    /\ r.context_after
                         = ExpectedAfter(call.lines, r.line_number, call.context_lines)

\* a match on line 2 of 3 with a context of 3: one line before, one after
C28_Witness ==
    /\ SearchReturned
    /\ call.context_lines = 3
    /\ call.lines = << <<"x">>, <<"a", "b">>, <<"x", "a", "b">> >>
    /\ call.matcher = get_matcher(from_input(<<"x">>, FALSE, FALSE))
    /\ \E i \in 1..Len(ret.results) :
          /\ ret.results[i].line_number = 3
          /\ ret.results[i].context_before = << <<"x">>, <<"a", "b">> >>
          /\ ret.results[i].context_after = <<>>
    /\ ret.results[1].context_after = << <<"a", "b">>, <<"x", "a", "b">> >>

MatchReturned == ret.done /\ call.fn = "match"

\* the bytes of a line
LineBytes(line) == [i \in 1..Len(line) |-> Byte(line[i])]

\* t occurs in s as a run of consecutive elements
Occurs(t, s) ==
    \E k \in 1..(Len(s) + 1) :
        k + Len(t) - 1 <= Len(s) /\ SubSeq(s, k, k + Len(t) - 1) = t

\* a string of hex digits, an even number of them
ValidHex(h) ==
    /\ Len(h) % 2 = 0
    /\ \A i \in 1..Len(h) :
          h[i] \in {"0", "1", "2", "3", "4", "5", "6", "7", "8", "9",
                    "a", "b", "c", "d", "e", "f"}

\* C29: for a hex string of an even number of hex digits (spaces removed)
\* the Hex matcher matches a line iff the decoded bytes occur in the bytes
\* of the line, for every byte value; any other input is rejected with the
\* invalid-hex error when the pattern is built.
C29_HexMatchesBytes ==
    (MatchReturned /\ call.is_hex)
        => IF ValidHex(StripSpaces(call.input))
           THEN /\ ret.pattern.tag = "Hex"
                /\ (ret.offset > 0)
                      = Occurs(HexDecode(StripSpaces(call.input)).bytes,
                               LineBytes(call.line))
           ELSE ret.pattern = [tag |-> "Err", val |-> "InvalidHex"]

\* the statement of C29 for hex strings of bytes below 0x80
C29_AsciiHexMatchesBytes ==
    (/\ MatchReturned /\ call.is_hex
     /\ ValidHex(StripSpaces(call.input))
     /\ \A i \in 1..Len(ret.pattern.val) : ret.pattern.val[i] < 128)
        => /\ ret.pattern.tag = "Hex"
           /\ (ret.offset > 0)
                 = Occurs(ret.pattern.val, LineBytes(call.line))

\* C30: the Text matcher matches a line iff the line contains the pattern
\* as a literal substring, and then at its first occurrence; no character
\* of the pattern is regex syntax.
C30_TextIsLiteral ==
    (MatchReturned /\ ~call.is_hex /\ ~call.is_regex)
        => /\ ret.pattern = [tag |-> "Text", val |-> call.input]
           /\ (ret.offset > 0) = Occurs(call.input, call.line)
           /\ ret.offset > 0
                 => /\ SubSeq(call.line, ret.offset, ret.offset + Len(call.input) - 1)
                         = call.input
                    /\ \A k \in 1..(ret.offset - 1) :
                          SubSeq(call.line, k, k + Len(call.input) - 1) # call.input

\* the pattern a.b does not match the line axb
C30_Witness ==
    /\ MatchReturned
    /\ ~call.is_hex /\ ~call.is_regex
    /\ call.input = <<"a", ".", "b">>
    /\ call.line = <<"a", "x", "b">>
    /\ ret.offset = 0

FromInputReturned == ret.done /\ call.fn = "from_input"

\* C33: the pattern from_input returns is a Regex pattern holding the input
\* whenever the regex flag is set, the hex flag set or not; otherwise a Hex
\* pattern holding the decoded bytes when the hex flag is set; otherwise a
\* Text pattern holding the input unchanged.  (When it returns no pattern,
\* the error is that of the same flag.)
C33_FlagPrecedence ==
    FromInputReturned
        => /\ ret.pattern.tag # "Err"
                => ret.pattern =
                     IF call.is_regex THEN [tag |-> "Regex", val |-> call.input]
                     ELSE IF call.is_hex
                          THEN [tag |-> "Hex",
                                val |-> HexDecode(StripSpaces(call.input)).bytes]
                          ELSE [tag |-> "Text", val |-> call.input]
           /\ ret.pattern.tag = "Err"
                => \/ call.is_regex /\ ret.pattern.val = "InvalidRegex"
                   \/ ~call.is_regex /\ call.is_hex /\ ret.pattern.val = "InvalidHex"
           /\ (call.input = <<"6", "1", " ", "6", "2">> /\ ~call.is_regex /\ call.is_hex)
                => ret.pattern = [tag |-> "Hex", val |-> <<97, 98>>]

\* both flags set on an input that is a regex and a hex string: a Regex
\* pattern
C33_Witness ==
    /\ FromInputReturned
    /\ call.is_regex /\ call.is_hex
    /\ call.input = <<"6", "1">>
    /\ ret.pattern = [tag |-> "Regex", val |-> <<"6", "1">>]

\* C40: if the metadata of a file cannot be obtained, should_process skips
\* the size check: it accepts the file iff no path or directory exclusion
\* applies, whatever the size bounds are.
C40_NoMetadataNoSizeCheck ==
    (ShouldProcessReturned /\ ~call.entry.meta_ok)
        => /\ ret.accept = ~is_path_excluded(call.filter, call.entry.path)
           /\ ret.accept2 = ret.accept

\* a file of size 4 without metadata is accepted under the bounds [1, 2]
C40_Witness ==
    /\ ShouldProcessReturned
    /\ ~call.entry.meta_ok
    /\ call.entry.size = 4
    /\ call.filter.min_size = Some(1) /\ call.filter.max_size = Some(2)
    /\ ~ret.size_ok
    /\ ret.accept

\* the sampling loops that are running
AliveLoops == {l \in Loops : mon_pc[l] \notin {"none", "exited"}}

\* C34: whatever start() and stop() calls one thread makes on its monitor,
\* one after the other, at most one sampling loop is alive at any time.
C34_OneLoopAlive ==
    Cardinality(AliveLoops) <= 1

\* C36: every MonitorStatus get_status() has returned, with no more than
\* one sampling loop ever spawned, reports is_throttling true iff the
\* cpu_usage it reports is above cpu_threshold.
C36_StatusConsistent ==
    \A c \in Callers :
        (c_status[c].returned /\ Cardinality(SpawnedLoops) <= 1)
            => c_status[c].is_throttling = AboveThreshold(c_status[c].cpu_usage)

\* C39: the step of stop() changes the running flag and nothing else of
\* the monitor; once no sampling loop is alive the stored CPU usage and the
\* throttle flag keep their values; so whenever the flag is set, and so
\* after the monitor has stopped on a sample above the threshold, a call of
\* apply_throttle() sleeps and cannot return at once.
C39_StopKeepsFlag ==
    /\ [][(is_running /\ ~is_running')
            => UNCHANGED <<should_throttle, current_cpu_usage, mon_pc, mon_sample>>]_vars
    /\ [][LoopsExited
            => UNCHANGED <<should_throttle, current_cpu_usage>>]_vars
    /\ [](\A c \in Callers :
              (c_pc[c] = "idle" /\ should_throttle)
                 => /\ ENABLED (CallApplyThrottle(c) /\ c_pc'[c] = "sleeping")
                    /\ ~ENABLED (CallApplyThrottle(c) /\ c_pc'[c] = "idle"))

\* the monitor was stopped after a sample above the threshold, its loop has
\* exited, and every caller is asleep in apply_throttle
C39_Witness ==
    /\ stop_called
    /\ ~is_running
    /\ SpawnedLoops = {1}
    /\ mon_pc[1] = "exited"
    /\ AboveThreshold(mon_sample[1])
    /\ current_cpu_usage = to_stored(mon_sample[1])
    /\ should_throttle
    /\ \A c \in Callers : c_pc[c] = "sleeping"

\* the logger call of thread c that returns in this step
LogReturns(c, op) == lg_last'[c].n = lg_last[c].n + 1 /\ lg_last'[c].op = op

\* C31: with logging disabled every call of log_message, log_file and
\* finalize returns success and writes no line, and no step writes one; a
\* disabled ErrorLogger returns success from log_error without counting, its
\* error counts stay as they were and its total stays 0.
C31_DisabledIsNoOp ==
    /\ [][~log_enabled =>
            /\ log_lines' = log_lines
            /\ \A c \in Callers, op \in LoggerOps :
                  LogReturns(c, op) => lg_last'[c].result = "Ok"]_vars
    /\ [][~el_enabled =>
            /\ error_counts' = error_counts
            /\ \A c \in Callers :
                  LogReturns(c, "log_error") => lg_last'[c].result = "Ok"]_vars
    /\ [](~el_enabled =>
            /\ get_total_errors(error_counts) = 0
            /\ ~has_errors(error_counts)
            /\ \A c \in Callers : lg_pc[c] = "idle")

\* both loggers are disabled; one thread has returned from log_error and
\* another from finalize
C31_Witness ==
    /\ ~log_enabled
    /\ ~el_enabled
    /\ \E c, d \in Callers :
          /\ lg_last[c].op = "log_error"
          /\ lg_last[d].op = "finalize"

\* threads inside log_error that have counted their error
Counted == {c \in Callers : lg_pc[c] = "file"}

\* C32: for an enabled ErrorLogger the total, which is the count of the one
\* error type, is the number of log_error calls that have counted their
\* error, whatever the interleaving: it lies between the calls returned and
\* the calls begun and equals both when no call is in progress, and so does
\* the total get_total_errors returns at the step it returns; has_errors is
\* true iff the total is above zero.
C32_NoLostUpdate ==
    /\ [](el_enabled =>
            /\ get_total_errors(error_counts) = el_returned + Cardinality(Counted)
            /\ el_returned <= get_total_errors(error_counts)
            /\ get_total_errors(error_counts) <= el_started
            /\ (\A c \in Callers : lg_pc[c] = "idle")
                  => get_total_errors(error_counts) = el_started
            /\ error_counts > 0
                  => get_error_summary(error_counts)["FileRead"]
                        = get_total_errors(error_counts)
            /\ has_errors(error_counts) <=> get_total_errors(error_counts) > 0)
    /\ [][el_enabled =>
            \A c \in Callers :
                LogReturns(c, "get_total_errors")
                   => /\ el_returned <= lg_last'[c].total
                      /\ lg_last'[c].total <= el_started
                      /\ lg_last'[c].has <=> lg_last'[c].total > 0]_vars

\* two threads are inside log_error after an earlier call has returned: one
\* holds the mutex between its read and its write of the count, the other
\* waits for the mutex
C32_Witness ==
    /\ el_enabled
    /\ el_returned = 1
    /\ error_counts = 1
    /\ \E c, d \in Callers :
          /\ lg_pc[c] = "store"
          /\ err_lock = c
          /\ lg_pc[d] = "lock"

\* C37: in the pipeline no callback returns an error; when scan_directory
\* returns, the processed-count equals the seen-count, both are the number of
\* accepted files, those whose read failed included, each of which had its
\* one callback and its one recorded error; the total_files of every printed
\* summary is that number.
C37_ProcessedEqualsSeen ==
    /\ \A w \in Workers : w_pc[w] # "ret_err"
    /\ CallbackErrs = 0
    /\ scan_result # <<>> =>
          /\ scan_result[2] = scan_result[1]
          /\ scan_result[1] = Cardinality(AcceptedFiles)
          /\ FailedFiles \subseteq visited
          /\ \A f \in FailedFiles : cb_calls[f] = 1 /\ error_calls[f] = 1
    /\ \A i \in 1..Len(reported) :
          reported[i].total_files = Cardinality(AcceptedFiles)

\* the summary of a run over a tree with a file that could not be read has
\* been printed
C37_Witness ==
    /\ FailedFiles # {}
    /\ reported # <<>>
    /\ scan_result[1] = Cardinality(FailedFiles) + Cardinality(AcceptedFiles \ FailedFiles)
    /\ scan_result[2] > Cardinality(AcceptedFiles \ FailedFiles)
    /\ reported[1].total_files = scan_result[2]

PastJoinPcs == {"set_total", "stop_monitor", "finalize", "report", "done"}

\* the aggregator closure returned an error
AggFailed == agg_result \in {"Err(print)", "Err(log)"}

\* C35: once the aggregator has returned an error the receiver is gone and
\* the buffer with it; a worker at a send is not blocked, its send fails and
\* it returns from the callback; the walk returns, the join returns and main
\* returns; the result whose print failed is not counted, and no result is
\* received or counted and no match or matched file added from then on.
C35_EarlyExitTerminates ==
    /\ [](AggFailed => (agg_pc = "finished" /\ ~rx_alive /\ chan = <<>>))
    /\ [](AggFailed => \A w \in Workers : w_pc[w] = "send" => ENABLED Send(w))
    /\ [][\A w \in Workers :
            (AggFailed /\ w_pc[w] = "send" /\ w_pc'[w] # "send")
               => /\ w_pc'[w] = "ret"
                  /\ send_failed'[w_entry[w]] = send_failed[w_entry[w]] + 1
                  /\ sent' = sent]_vars
    /\ AggFailed ~> Exited
    /\ [](AggFailed => main_pc \in {"walk", "drop_tx", "join", "failed"} \cup PastJoinPcs)
    /\ []((AggFailed /\ (Exited \/ PastJoin))
            => /\ scan_result # <<>>
               /\ pending = {}
               /\ \A w \in Workers : w_pc[w] = "idle")
    /\ [][(agg_result' = "Err(print)" /\ agg_result # "Err(print)")
            => /\ counted' = counted
               /\ summary' = summary
               /\ matched_files' = matched_files
               /\ agg_cur \notin Range(counted)]_vars
    /\ [][AggFailed
            => /\ received' = received
               /\ counted' = counted
               /\ matched_files' = matched_files
               /\ summary'.total_matches = summary.total_matches
               /\ summary'.matched_files = summary.matched_files]_vars

\* the run has ended after the aggregator failed to print a result while a
\* send of a later result failed
C35_Witness ==
    /\ Exited
    /\ agg_result = "Err(print)"
    /\ \E e \in Entries : send_failed[e] > 0
    /\ Len(counted) < Len(sent)
    /\ reported # <<>>

\* C38: a sleeping worker leaves its sleep for the search of its file and for
\* nothing else, whatever the flag, and that search is made; no file has a
\* second callback; under fair scheduling a run in which a worker sleeps
\* ends, also with the flag set throughout, and it does not end before the
\* walk has returned, with every accepted file searched once.
C38_ThrottleOnlyDelays ==
    /\ [][\A w \in Workers :
            (w_pc[w] = "sleeping" /\ w_pc'[w] # "sleeping")
               => (w_pc'[w] = "search" /\ w_entry'[w] = w_entry[w])]_vars
    /\ (\E w \in Workers : w_pc[w] = "sleeping") ~> Exited
    /\ [](\A w \in Workers : w_pc[w] = "sleeping" => main_pc = "walk")
    /\ []((Exited /\ \E e \in Entries : cb_calls[e] > 0) => scan_result # <<>>)
    /\ [][\A w \in Workers :
            (w_pc[w] = "search" /\ w_pc'[w] # "search")
               => search_calls'[w_entry[w]] = search_calls[w_entry[w]] + 1]_vars
    /\ [](\A e \in Entries : cb_calls[e] <= 1)
    /\ [](scan_result # <<>> => \A g \in AcceptedFiles : search_calls[g] = 1)

\* a worker sleeps in apply_throttle with the flag set, after a file has
\* been searched
C38_Witness ==
    /\ should_throttle
    /\ \E w \in Workers : w_pc[w] = "sleeping"
    /\ \E e \in Entries : search_calls[e] = 1

====
